---- MODULE Spec2Model ----
(***************************************************************************)
(* A model of mem-vfs, an in-memory virtual file system: the path          *)
(* utilities (normalizer, resolver, validator), the node tree, symlink     *)
(* resolution, and the snapshot / diff engine of class VirtualFileSystem.  *)
(*                                                                         *)
(* A path string is a sequence of characters, a character being a          *)
(* one-character string; a node name is such a sequence without "/".      *)
(* A tree is a function from real paths (sequences of names, <<>> being    *)
(* the root) to node records.  A node has one parent and no back pointer,  *)
(* so the real path of a node identifies the node instance.                *)
(***************************************************************************)
EXTENDS Integers, Sequences, FiniteSets, TLC

(***************************************************************************)
(* Strings                                                                 *)
(***************************************************************************)
LowerLetters == <<"a","b","c","d","e","f","g","h","i","j","k","l","m",
                  "n","o","p","q","r","s","t","u","v","w","x","y","z">>

UpperLetters == <<"A","B","C","D","E","F","G","H","I","J","K","L","M",
                  "N","O","P","Q","R","S","T","U","V","W","X","Y","Z">>

\* String.prototype.toUpperCase, one character
UpperChar(c) ==
  IF \E i \in DOMAIN LowerLetters : LowerLetters[i] = c
  THEN UpperLetters[CHOOSE i \in DOMAIN LowerLetters : LowerLetters[i] = c]
  ELSE c

toUpperCase(s) == [i \in 1..Len(s) |-> UpperChar(s[i])]

startsWith(s, pre) ==
  /\ Len(pre) <= Len(s)
  /\ SubSeq(s, 1, Len(pre)) = pre

endsWith(s, suf) ==
  /\ Len(suf) <= Len(s)
  /\ SubSeq(s, Len(s) - Len(suf) + 1, Len(s)) = suf

\* String.prototype.lastIndexOf for one character, 1-based; 0 when absent
lastIndexOf(s, c) ==
  IF \E i \in 1..Len(s) : s[i] = c
  THEN CHOOSE i \in 1..Len(s) : s[i] = c /\ \A j \in (i+1)..Len(s) : s[j] # c
  ELSE 0

\* String.prototype.split(sep) for a one-character separator: empty parts kept
RECURSIVE split(_, _)
split(s, sep) ==
  IF \A i \in 1..Len(s) : s[i] # sep
  THEN <<s>>
  ELSE LET k == CHOOSE i \in 1..Len(s) :
                  s[i] = sep /\ \A j \in 1..(i-1) : s[j] # sep
       IN  <<SubSeq(s, 1, k-1)>> \o split(SubSeq(s, k+1, Len(s)), sep)

\* Array.prototype.filter(Boolean) on an array of strings: drops the empty ones
filterBoolean(parts) == SelectSeq(parts, LAMBDA p : p # <<>>)

\* Array.prototype.join(sep)
RECURSIVE joinWith(_, _)
joinWith(parts, sep) ==
  IF parts = <<>> THEN <<>>
  ELSE IF Len(parts) = 1 THEN parts[1]
  ELSE parts[1] \o sep \o joinWith(Tail(parts), sep)

\* s.replace(/\\/g, '/')
replaceBackslashes(s) == [i \in 1..Len(s) |-> IF s[i] = "\\" THEN "/" ELSE s[i]]

\* s.replace(/\/+/g, '/')
RECURSIVE collapseSlashes(_)
collapseSlashes(s) ==
  IF Len(s) <= 1 THEN s
  ELSE IF s[1] = "/" /\ s[2] = "/" THEN collapseSlashes(Tail(s))
  ELSE <<s[1]>> \o collapseSlashes(Tail(s))

(***************************************************************************)
(* Path normalizer                                                         *)
(***************************************************************************)
ROOT == <<"/">>
DOT == <<".">>
DOTDOT == <<".", ".">>

\* the loop had it kept a '..' that climbs above the root of an absolute path
RECURSIVE normalizeStackClimbing(_, _, _)
normalizeStackClimbing(parts, stack, isAbs) ==
  IF parts = <<>> THEN stack
  ELSE IF Head(parts) = <<>> \/ Head(parts) = DOT
  THEN normalizeStackClimbing(Tail(parts), stack, isAbs)
  ELSE IF Head(parts) = DOTDOT /\ Len(stack) > 0 /\ stack[Len(stack)] # DOTDOT
  THEN normalizeStackClimbing(Tail(parts), SubSeq(stack, 1, Len(stack) - 1), isAbs)
  ELSE normalizeStackClimbing(Tail(parts), Append(stack, Head(parts)), isAbs)

\* the loop of normalizePath over the parts, with its stack
RECURSIVE normalizeStack(_, _, _)
normalizeStack(parts, stack, isAbs) ==
  IF parts = <<>> THEN stack
  ELSE LET part == Head(parts)
           rest == Tail(parts)
       IN  IF part = <<>> \/ part = DOT
           THEN normalizeStack(rest, stack, isAbs)
           ELSE IF part = DOTDOT
           THEN IF Len(stack) > 0 /\ stack[Len(stack)] # DOTDOT
                THEN normalizeStack(rest, SubSeq(stack, 1, Len(stack) - 1), isAbs)
                ELSE IF ~isAbs
                THEN normalizeStack(rest, Append(stack, DOTDOT), isAbs)
                ELSE normalizeStack(rest, stack, isAbs)
           ELSE normalizeStack(rest, Append(stack, part), isAbs)

\* the return had it given the empty result of a relative path as it is
normalizedOrEmpty(isAbs, result) ==
  IF result = <<>> THEN (IF isAbs THEN ROOT ELSE <<>>) ELSE result

\* "if (!result) return isAbsolute ? '/' : '.'"
normalizedOr(isAbs, result) ==
  IF result = <<>> THEN (IF isAbs THEN ROOT ELSE DOT) ELSE result

\* result = stack.join('/'), with the leading '/' of an absolute path
normalizedJoin(isAbs, stack) ==
  normalizedOr(isAbs, IF isAbs THEN <<"/">> \o joinWith(stack, <<"/">>)
                               ELSE joinWith(stack, <<"/">>))

\* normalizePath from "const parts = normalized.split('/')" on
normalizedParts(normalized, isAbs) ==
  normalizedJoin(isAbs, normalizeStack(split(normalized, "/"), <<>>, isAbs))

\* normalizePath from "const isAbsolute = normalized.startsWith('/')" on
normalizedFrom(normalized) ==
  normalizedParts(normalized, startsWith(normalized, <<"/">>))

normalizePath(inputPath) ==
  IF inputPath = <<>> THEN ROOT
  ELSE normalizedFrom(collapseSlashes(replaceBackslashes(inputPath)))

\* dirname from "if (lastSlash === -1)" on; lastSlash is 1-based, 0 when absent
dirnameAt(normalized, lastSlash) ==
  IF normalized = ROOT THEN ROOT
  ELSE IF lastSlash = 0 THEN DOT
  ELSE IF lastSlash = 1 THEN ROOT
  ELSE SubSeq(normalized, 1, lastSlash - 1)

\* dirname of a normalized path
dirnameOf(normalized) == dirnameAt(normalized, lastIndexOf(normalized, "/"))

dirname(inputPath) == dirnameOf(normalizePath(inputPath))

\* basename of a normalized path
basenameOf(normalized) ==
  IF normalized = ROOT THEN <<>>
  ELSE SubSeq(normalized, lastIndexOf(normalized, "/") + 1, Len(normalized))

\* basename without the optional suffix argument, which the file system never passes
basename(inputPath) == basenameOf(normalizePath(inputPath))

\* join(...paths) for the argument list paths
RECURSIVE joinLoop(_, _)
joinLoop(paths, joined) ==
  IF paths = <<>> THEN joined
  ELSE LET path == Head(paths)
       IN  IF path = <<>> THEN joinLoop(Tail(paths), joined)
           ELSE IF joined = <<>> THEN joinLoop(Tail(paths), path)
           ELSE joinLoop(Tail(paths), joined \o <<"/">> \o path)

join(paths) ==
  IF paths = <<>> THEN DOT ELSE normalizePath(joinLoop(paths, <<>>))

splitPath(inputPath) == filterBoolean(split(normalizePath(inputPath), "/"))

(***************************************************************************)
(* Path validator                                                          *)
(***************************************************************************)
\* INVALID_CHARS = /[\x00-\x1f]/: the control characters a TLA+ string can hold
INVALID_CHARS == {"\t", "\n", "\r", "\f"}

RESERVED_NAMES ==
  { <<"C","O","N">>, <<"P","R","N">>, <<"A","U","X">>, <<"N","U","L">> }
  \cup { <<"C","O","M",d>> : d \in {"1","2","3","4","5","6","7","8","9"} }
  \cup { <<"L","P","T",d>> : d \in {"1","2","3","4","5","6","7","8","9"} }

MAX_PATH_LENGTH == 4096

MAX_SEGMENT_LENGTH == 255

\* TRUE when validatePathSegment returns, FALSE when it throws InvalidPathError
validatePathSegment(segment) ==
  LET upperSegment == toUpperCase(segment)
      baseSegment == split(upperSegment, ".")[1]
  IN  /\ Len(segment) <= MAX_SEGMENT_LENGTH
      /\ baseSegment \notin RESERVED_NAMES
      /\ ~endsWith(segment, <<" ">>)
      /\ ~endsWith(segment, <<".">>)

\* the loop of validatePath over the parts
validateParts(parts) ==
  \A k \in 1..Len(parts) :
    parts[k] = DOT \/ parts[k] = DOTDOT \/ validatePathSegment(parts[k])

\* TRUE when validatePath returns, FALSE when it throws InvalidPathError
validatePath(inputPath) ==
  /\ inputPath # <<>>
  /\ Len(inputPath) <= MAX_PATH_LENGTH
  /\ \A i \in 1..Len(inputPath) : inputPath[i] \notin INVALID_CHARS
  /\ validateParts(filterBoolean(split(inputPath, "/")))

(***************************************************************************)
(* Path resolver                                                           *)
(***************************************************************************)
\* the record resolvePath returns for the normalized path fullPath
resolvedAs(fullPath, isRoot) ==
  [ok |-> TRUE,
   fullPath |-> fullPath,
   parentPath |-> IF isRoot THEN ROOT ELSE dirname(fullPath),
   name |-> IF isRoot THEN <<>> ELSE basename(fullPath),
   segments |-> splitPath(fullPath),
   isRoot |-> isRoot]

\* resolvePath from "const isRoot = fullPath === '/'" on
resolvedFrom(fullPath) == resolvedAs(fullPath, fullPath = ROOT)

\* ok = FALSE stands for the InvalidPathError that validatePath throws
resolvePath(inputPath) ==
  IF ~validatePath(inputPath)
  THEN [ok |-> FALSE, fullPath |-> <<>>, parentPath |-> <<>>, name |-> <<>>,
        segments |-> <<>>, isRoot |-> FALSE]
  ELSE resolvedFrom(normalizePath(inputPath))

(***************************************************************************)
(* Error taxonomy                                                          *)
(***************************************************************************)
FileSystemErrorCode ==
  { "FILE_NOT_FOUND", "DIRECTORY_NOT_FOUND", "PERMISSION_DENIED",
    "DIRECTORY_NOT_EMPTY", "FILE_ALREADY_EXISTS", "DIRECTORY_ALREADY_EXISTS",
    "INVALID_PATH", "NOT_A_FILE", "NOT_A_DIRECTORY", "NOT_A_SYMLINK",
    "SYMLINK_LOOP", "MAX_DEPTH_EXCEEDED", "IO_ERROR" }

\* no error thrown
OK == "OK"

\* a plain Error object, which carries no FileSystemErrorCode
PLAIN_ERROR == "Error"

(***************************************************************************)
(* Nodes                                                                   *)
(***************************************************************************)
\* new VFSNode(name, mode) at clock reading now, with the fields of its subclass.
\* buffer tells which Buffer object a file's content is: <<>> for one that only
\* the file refers to, <<b>> for the caller's Buffer b.  name is the readonly
\* name of the node and id tells the objects apart; both are given by constructed
VFSNode(kind, mode, content, target, now) ==
  [kind |-> kind, mode |-> mode, uid |-> 0, gid |-> 0,
   createdTime |-> now, modifiedTime |-> now, accessedTime |-> now,
   content |-> content, target |-> target, buffer |-> <<>>,
   name |-> <<>>, id |-> 0]

\* a VFSFile constructor that forgets the content it is given
VFSFileWithoutContent(content, mode, now) == VFSNode("file", mode, <<>>, <<>>, now)

\* modes are kept as the names of their octal literals
VFSFile(content, mode, now) == VFSNode("file", mode, content, <<>>, now)

VFSDirectory(mode, now) == VFSNode("directory", mode, <<>>, <<>>, now)

VFSSymlink(target, now) == VFSNode("symlink", "0o777", <<>>, target, now)

\* the VFSFile constructor's "this.content = typeof content === 'string' ?
\* Buffer.from(content, 'utf-8') : content": a Buffer that is given becomes the
\* content itself; cx.buffer is <<>> when the content given is a string
holding(file, cx) == [file EXCEPT !.buffer = cx.buffer]

\* the identities of the objects of tree t
idsOf(t) == {t[q].id : q \in DOMAIN t}

\* the identities of the objects of the stored snapshots
idsIn(snaps) == UNION {idsOf(snaps[i]) : i \in DOMAIN snaps}

greatest(S) == CHOOSE x \in S : \A y \in S : y <= x

\* an identity that no object of tree t and no object of a snapshot has.  The
\* objects are told apart only where cx.objects is <<S>>, S being the identities
\* that the snapshots hold; where it is <<>> every object has identity 0
fresh(t, cx) ==
  IF cx.objects = <<>> THEN 0 ELSE 1 + greatest(idsOf(t) \cup cx.objects[1])

\* "new VFSFile(name, ...)", "new VFSDirectory(segment, ...)", "new
\* VFSSymlink(name, target)": a new object with the name it is given
constructed(node, name, t, cx) == [node EXCEPT !.name = name, !.id = fresh(t, cx)]

\* VFSNode.touch on the node at real path p
touch(t, p, now) == [t EXCEPT ![p].accessedTime = now]

\* VFSNode.markModified
markModified(t, p, now) ==
  [t EXCEPT ![p].modifiedTime = now, ![p].accessedTime = now]

isPrefix(p, q) == Len(p) <= Len(q) /\ SubSeq(q, 1, Len(p)) = p

\* the real paths of the children of directory d
childrenOf(t, d) == {q \in DOMAIN t : Len(q) = Len(d) + 1 /\ isPrefix(d, q)}

\* the tree without the node at p and everything below it
withoutSubtree(t, p) == [q \in {r \in DOMAIN t : ~isPrefix(p, r)} |-> t[q]]

\* VFSDirectory.addChild: children.set(node.name, node), then markModified
addChild(t, d, node, now) ==
  LET p == Append(d, node.name)
      cleared == withoutSubtree(t, p)
      added == [q \in DOMAIN cleared \cup {p} |-> IF q = p THEN node ELSE cleared[q]]
  IN  markModified(added, d, now)

\* VFSDirectory.removeChild: children.delete(name), markModified when it was there
removeChild(t, d, name, now) ==
  LET p == Append(d, name)
  IN  IF p \in DOMAIN t THEN markModified(withoutSubtree(t, p), d, now) ELSE t

\* a write that keeps what the file held and adds the data to it
writeAppending(t, p, data, now) ==
  markModified([t EXCEPT ![p].content = @ \o data, ![p].buffer = <<>>], p, now)

\* VFSFile.write: the content becomes a new Buffer, Buffer.from(data)
write(t, p, data, now) ==
  markModified([t EXCEPT ![p].content = data, ![p].buffer = <<>>], p, now)

\* VFSFile.append: the content becomes a new Buffer, Buffer.concat([...])
append(t, p, data, now) ==
  markModified([t EXCEPT ![p].content = t[p].content \o data, ![p].buffer = <<>>],
               p, now)

(***************************************************************************)
(* VirtualFileSystem: resolution                                           *)
(*                                                                         *)
(* Every method takes the live tree t and a context cx = [now, options]    *)
(* and returns a record holding the tree it leaves behind (t) and the      *)
(* error it threw (err, OK when it returned).  A method that throws keeps  *)
(* the mutations it made before the throw.  One clock reading serves a     *)
(* whole public call.                                                      *)
(***************************************************************************)
DEFAULT_OPTIONS ==
  [defaultFileMode |-> "0o644", defaultDirectoryMode |-> "0o755",
   maxSymlinkDepth |-> 40]

\* results of resolveNode: a node (its real path), null, or a throw
Resolved(t, p) == [t |-> t, err |-> OK, found |-> TRUE, path |-> p]

Null(t) == [t |-> t, err |-> OK, found |-> FALSE, path |-> <<>>]

ThrowR(t, e) == [t |-> t, err |-> e, found |-> FALSE, path |-> <<>>]

\* the target path that resolveNode follows for the symlink met at segments[i]
\* (i counted from 1): segments.slice(0, i) of the source is SubSeq(segments, 1, i-1)
targetPath(target, segments, i) ==
  IF startsWith(target, <<"/">>)
  THEN target
  ELSE join(<< dirname(<<"/">> \o joinWith(SubSeq(segments, 1, i - 1), <<"/">>)),
               target >>)

RECURSIVE resolveNode(_, _, _, _, _)
RECURSIVE resolveLoop(_, _, _, _, _, _, _)
\* the loop body after "const resolved = this.resolveNode(targetPath, true, depth + 1)"
resolveFollowed(r, segments, i, child, followSymlinks, depth, cx) ==
  IF r.err # OK THEN r
  ELSE IF ~r.found THEN Null(r.t)
  ELSE IF i = Len(segments)
  THEN (IF followSymlinks THEN r ELSE Resolved(r.t, child))
  ELSE resolveLoop(r.t, segments, i + 1, r.path, followSymlinks, depth, cx)

\* the loop body had it followed a symlink at the final segment regardless of
\* followSymlinks
resolveChildFollowing(t1, segments, i, child, followSymlinks, depth, cx) ==
  IF child \notin DOMAIN t1 THEN Null(t1)
  ELSE IF t1[child].kind = "symlink"
  THEN resolveFollowed(
         resolveNode(t1, targetPath(t1[child].target, segments, i),
                     TRUE, depth + 1, cx),
         segments, i, child, TRUE, depth, cx)
  ELSE resolveLoop(t1, segments, i + 1, child, followSymlinks, depth, cx)

\* the loop body after "const child = current.getChild(segment)", which touches current
resolveChild(t1, segments, i, child, followSymlinks, depth, cx) ==
  IF child \notin DOMAIN t1 THEN Null(t1)
  ELSE IF t1[child].kind = "symlink"
  THEN IF followSymlinks \/ i < Len(segments)
       THEN resolveFollowed(
              resolveNode(t1, targetPath(t1[child].target, segments, i),
                          TRUE, depth + 1, cx),
              segments, i, child, followSymlinks, depth, cx)
       ELSE Resolved(t1, child)
  ELSE resolveLoop(t1, segments, i + 1, child, followSymlinks, depth, cx)

\* the for loop of resolveNode, at segment i with current node cur
resolveLoop(t, segments, i, cur, followSymlinks, depth, cx) ==
  IF i > Len(segments) THEN Resolved(t, cur)
  ELSE IF t[cur].kind # "directory" THEN Null(t)
  ELSE resolveChild(touch(t, cur, cx.now), segments, i, Append(cur, segments[i]),
                    followSymlinks, depth, cx)

\* resolveNode after "const resolved = resolvePath(inputPath)"
resolveFrom(t, rp, followSymlinks, depth, cx) ==
  IF ~rp.ok THEN ThrowR(t, "INVALID_PATH")
  ELSE IF rp.isRoot THEN Resolved(t, <<>>)
  ELSE resolveLoop(t, rp.segments, 1, <<>>, followSymlinks, depth, cx)

\* resolveNode had it given up one link earlier
resolveNodeEarly(t, inputPath, followSymlinks, depth, cx) ==
  IF depth >= cx.options.maxSymlinkDepth THEN ThrowR(t, "SYMLINK_LOOP")
  ELSE resolveFrom(t, resolvePath(inputPath), followSymlinks, depth, cx)

\* resolveNode had it given up one link later
resolveNodeLate(t, inputPath, followSymlinks, depth, cx) ==
  IF depth > cx.options.maxSymlinkDepth + 1 THEN ThrowR(t, "SYMLINK_LOOP")
  ELSE resolveFrom(t, resolvePath(inputPath), followSymlinks, depth, cx)

resolveNode(t, inputPath, followSymlinks, depth, cx) ==
  IF depth > cx.options.maxSymlinkDepth THEN ThrowR(t, "SYMLINK_LOOP")
  ELSE resolveFrom(t, resolvePath(inputPath), followSymlinks, depth, cx)

\* getDirectory after "const node = this.resolveNode(dirPath, true)"
directoryOf(r) ==
  IF r.err # OK THEN r
  ELSE IF ~r.found THEN ThrowR(r.t, "DIRECTORY_NOT_FOUND")
  ELSE IF r.t[r.path].kind # "directory" THEN ThrowR(r.t, "NOT_A_DIRECTORY")
  ELSE r

getDirectory(t, dirPath, cx) == directoryOf(resolveNode(t, dirPath, TRUE, 0, cx))

\* the catch of getDirectoryOrNull keeps what getDirectory touched before it threw
directoryOrNull(d) == IF d.err # OK THEN Null(d.t) ELSE d

getDirectoryOrNull(t, dirPath, cx) == directoryOrNull(getDirectory(t, dirPath, cx))

(***************************************************************************)
(* VirtualFileSystem: watcher notification                                 *)
(***************************************************************************)
\* what a mutating method leaves: the tree, the error it threw, and the watcher
\* notifications it made, in order (each one goes to every open watcher)
Done(t) == [t |-> t, err |-> OK, events |-> <<>>]

Throw(t, e) == [t |-> t, err |-> e, events |-> <<>>]

\* the loop of notifyWatchers over this.watchers, for one notification
Notified(t, path, type) ==
  [t |-> t, err |-> OK, events |-> << [type |-> type, path |-> path] >>]

\* the result r of what a method did after it had made the notifications made
andThen(made, r) == [r EXCEPT !.events = made \o @]

\* notifyWatchers after its stats lookup
notifiedOf(r, path, type) ==
  IF r.err # OK THEN Throw(r.t, r.err) ELSE Notified(r.t, path, type)

\* notifyWatchers: the stats lookup runs whether or not a watcher is open
notifyWatchers(t, path, type, cx) ==
  IF type \in {"change", "add", "addDir"}
  THEN notifiedOf(resolveNode(t, path, TRUE, 0, cx), path, type)
  ELSE Notified(t, path, type)

(***************************************************************************)
(* VirtualFileSystem: directories                                          *)
(***************************************************************************)
RECURSIVE createDirectoryLoop(_, _, _, _, _, _, _)
\* the loop body after "const resolved = this.resolveNode(currentPath, true)"
createDirectoryFollowed(r, segments, i, nextPath, recursive, cx) ==
  IF r.err # OK THEN Throw(r.t, r.err)
  ELSE IF r.found /\ r.t[r.path].kind = "directory"
  THEN createDirectoryLoop(r.t, segments, i + 1, r.path, nextPath, recursive, cx)
  ELSE Throw(r.t, "NOT_A_DIRECTORY")

\* the loop body after "this.notifyWatchers(currentPath, 'addDir')"
createDirectoryNotified(n, segments, i, child, nextPath, recursive, cx) ==
  IF n.err # OK THEN n
  ELSE andThen(n.events,
             createDirectoryLoop(n.t, segments, i + 1, child, nextPath, recursive, cx))

\* a loop body that ignores the recursive flag and the kind of an existing child:
\* it creates what is missing and walks on through what is there
createDirectoryChildRegardless(t1, segments, i, current, child, nextPath, recursive, cx) ==
  IF child \in DOMAIN t1
  THEN createDirectoryLoop(t1, segments, i + 1, child, nextPath, recursive, cx)
  ELSE createDirectoryNotified(
         notifyWatchers(
           addChild(t1, current,
                    constructed(VFSDirectory(cx.options.defaultDirectoryMode, cx.now),
                                segments[i], t1, cx),
                    cx.now),
           nextPath, "addDir", cx),
         segments, i, child, nextPath, recursive, cx)

\* the loop body after "const child = current.getChild(segment)", which touches
\* current; nextPath is currentPath after "currentPath += '/' + segment"
createDirectoryChild(t1, segments, i, current, child, nextPath, recursive, cx) ==
  IF child \in DOMAIN t1
  THEN IF t1[child].kind = "directory"
       THEN createDirectoryLoop(t1, segments, i + 1, child, nextPath, recursive, cx)
       ELSE IF t1[child].kind = "symlink"
       THEN createDirectoryFollowed(resolveNode(t1, nextPath, TRUE, 0, cx),
                                    segments, i, nextPath, recursive, cx)
       ELSE Throw(t1, "NOT_A_DIRECTORY")
  ELSE IF ~recursive /\ i < Len(segments)
       THEN Throw(t1, "DIRECTORY_NOT_FOUND")
       ELSE createDirectoryNotified(
              notifyWatchers(
                addChild(t1, current,
                         constructed(VFSDirectory(cx.options.defaultDirectoryMode, cx.now),
                                     segments[i], t1, cx),
                         cx.now),
                nextPath, "addDir", cx),
              segments, i, child, nextPath, recursive, cx)

\* the for loop of createDirectory, at segment i
createDirectoryLoop(t, segments, i, current, currentPath, recursive, cx) ==
  IF i > Len(segments) THEN Done(t)
  ELSE createDirectoryChild(touch(t, current, cx.now), segments, i, current,
                            Append(current, segments[i]),
                            currentPath \o <<"/">> \o segments[i], recursive, cx)

\* createDirectory after "const resolved = resolvePath(dirPath)"
createDirectoryFrom(t, rp, recursive, cx) ==
  IF ~rp.ok THEN Throw(t, "INVALID_PATH")
  ELSE IF rp.fullPath = ROOT THEN Done(t)
  ELSE createDirectoryLoop(t, rp.segments, 1, <<>>, <<>>, recursive, cx)

createDirectory(t, dirPath, recursive, cx) ==
  createDirectoryFrom(t, resolvePath(dirPath), recursive, cx)

\* readDirectory after "const dir = this.getDirectory(dirPath)"
entriesOf(d, cx) ==
  IF d.err # OK THEN [t |-> d.t, err |-> d.err, ret |-> {}, events |-> <<>>]
  ELSE [t |-> touch(d.t, d.path, cx.now), err |-> OK,
        ret |-> {q[Len(q)] : q \in childrenOf(d.t, d.path)}, events |-> <<>>]

\* readDirectory: the entries are returned as the set of child names
readDirectory(t, dirPath, cx) == entriesOf(getDirectory(t, dirPath, cx), cx)

\* removeChild for every name of root.getChildNames()
clearRoot(t, now) ==
  IF childrenOf(t, <<>>) = {} THEN t
  ELSE markModified([q \in {<<>>} |-> t[q]], <<>>, now)

\* deleteDirectory after "const node = parent.getChild(name)", which touches the parent
deleteDirectoryChild(rp, parent, t1, node, recursive, cx) ==
  IF node \notin DOMAIN t1 THEN Throw(t1, "DIRECTORY_NOT_FOUND")
  ELSE IF t1[node].kind # "directory" THEN Throw(t1, "NOT_A_DIRECTORY")
  ELSE IF ~recursive /\ childrenOf(t1, node) # {}
  THEN Throw(t1, "DIRECTORY_NOT_EMPTY")
  ELSE notifyWatchers(removeChild(t1, parent, rp.name, cx.now),
                      rp.fullPath, "unlinkDir", cx)

\* deleteDirectory after "const parent = this.getDirectory(parentPath)"
deleteDirectoryIn(rp, d, recursive, cx) ==
  IF d.err # OK THEN Throw(d.t, d.err)
  ELSE deleteDirectoryChild(rp, d.path, touch(d.t, d.path, cx.now),
                            Append(d.path, rp.name), recursive, cx)

\* deleteDirectory after "const resolved = resolvePath(dirPath)"
deleteDirectoryFrom(t, rp, recursive, cx) ==
  IF ~rp.ok THEN Throw(t, "INVALID_PATH")
  ELSE IF rp.isRoot
  THEN (IF ~recursive THEN Throw(t, "DIRECTORY_NOT_EMPTY")
        ELSE Done(clearRoot(t, cx.now)))
  ELSE deleteDirectoryIn(rp, getDirectory(t, rp.parentPath, cx), recursive, cx)

deleteDirectory(t, dirPath, recursive, cx) ==
  deleteDirectoryFrom(t, resolvePath(dirPath), recursive, cx)

(***************************************************************************)
(* VirtualFileSystem: files                                                *)
(***************************************************************************)
Return(t, v) == [t |-> t, err |-> OK, ret |-> v, events |-> <<>>]

ThrowV(t, e) == [t |-> t, err |-> e, ret |-> <<>>, events |-> <<>>]

\* readFile after "const node = this.resolveNode(filePath, true)"
contentOf(r, cx) ==
  IF r.err # OK THEN ThrowV(r.t, r.err)
  ELSE IF ~r.found THEN ThrowV(r.t, "FILE_NOT_FOUND")
  ELSE IF r.t[r.path].kind = "directory" THEN ThrowV(r.t, "NOT_A_FILE")
  ELSE IF r.t[r.path].kind = "file"
  THEN Return(touch(r.t, r.path, cx.now), r.t[r.path].content)
  ELSE ThrowV(r.t, "FILE_NOT_FOUND")

\* readFile without an encoding: the bytes of the file (VFSFile.read touches it)
readFile(t, filePath, cx) == contentOf(resolveNode(t, filePath, TRUE, 0, cx), cx)

\* writeFileInternal, "build a new file": parent.addChild(new VFSFile(...)), then notify
writeFileCreated(rp, parent, tt, content, cx) ==
  notifyWatchers(
    addChild(tt, parent,
             constructed(holding(VFSFile(content, cx.options.defaultFileMode, cx.now), cx),
                         rp.name, tt, cx),
             cx.now),
    rp.fullPath, "add", cx)

\* writeFileInternal, "existing.write(buffer)", then notify
writeFileChanged(rp, tt, file, content, cx) ==
  notifyWatchers(write(tt, file, content, cx.now), rp.fullPath, "change", cx)

\* writeFileInternal, the symlink branch after
\* "const resolved = this.resolveNode(filePath, true)"
writeFileFollowed(rp, parent, r, content, cx) ==
  IF r.err # OK THEN Throw(r.t, r.err)
  ELSE IF r.found /\ r.t[r.path].kind = "file"
  THEN writeFileChanged(rp, r.t, r.path, content, cx)
  ELSE writeFileCreated(rp, parent, r.t, content, cx)

\* writeFileInternal after "const existing = parent.getChild(name)", which
\* touches the parent
writeFileChild(rp, parent, t1, existing, filePath, content, cx) ==
  IF existing \notin DOMAIN t1 THEN writeFileCreated(rp, parent, t1, content, cx)
  ELSE IF t1[existing].kind = "directory" THEN Throw(t1, "NOT_A_FILE")
  ELSE IF t1[existing].kind = "file"
  THEN writeFileChanged(rp, t1, existing, content, cx)
  ELSE writeFileFollowed(rp, parent, resolveNode(t1, filePath, TRUE, 0, cx),
                         content, cx)

\* writeFileInternal after "const parent = this.getDirectory(parentPath)"
writeFileIn(rp, d, filePath, content, cx) ==
  IF d.err # OK THEN Throw(d.t, d.err)
  ELSE writeFileChild(rp, d.path, touch(d.t, d.path, cx.now),
                      Append(d.path, rp.name), filePath, content, cx)

\* writeFileInternal after "await this.createDirectory(parentPath, true)"
writeFileMade(rp, c, filePath, content, cx) ==
  IF c.err # OK THEN c
  ELSE andThen(c.events,
             writeFileIn(rp, getDirectory(c.t, rp.parentPath, cx), filePath, content, cx))

\* writeFileInternal after "const resolved = resolvePath(filePath)"
writeFileFrom(t, rp, filePath, content, cx) ==
  IF ~rp.ok THEN Throw(t, "INVALID_PATH")
  ELSE writeFileMade(rp, createDirectory(t, rp.parentPath, TRUE, cx),
                     filePath, content, cx)

writeFileInternal(t, filePath, content, cx) ==
  writeFileFrom(t, resolvePath(filePath), filePath, content, cx)

\* a writeFileInternal that awaits without having called createDirectory
writeFileAwaitingNothing(t, rp, cx) ==
  IF ~rp.ok THEN Throw(t, "INVALID_PATH") ELSE Done(t)

\* writeFileInternal up to its await: resolvePath, then the call of createDirectory
writeFileAwaiting(t, rp, cx) ==
  IF ~rp.ok THEN Throw(t, "INVALID_PATH")
  ELSE createDirectory(t, rp.parentPath, TRUE, cx)

\* writeFileInternal from its await on, on the tree t the event loop hands back
writeFileResumed(t, filePath, content, cx) ==
  writeFileMade(resolvePath(filePath), Done(t), filePath, content, cx)

\* deleteFile after "const node = parent.getChild(name)", which touches the parent
\* deleteFile removing the node that the path resolves to through symlinks
deleteFileChildFollowed(rp, parent, t1, node, cx) ==
  LET r == resolveNode(t1, rp.fullPath, TRUE, 0, cx)
  IN  IF r.err # OK \/ ~r.found THEN Throw(t1, "FILE_NOT_FOUND")
      ELSE IF r.t[r.path].kind = "directory" THEN Throw(r.t, "NOT_A_FILE")
      ELSE notifyWatchers(withoutSubtree(r.t, r.path), rp.fullPath, "unlink", cx)

deleteFileChild(rp, parent, t1, node, cx) ==
  IF node \notin DOMAIN t1 THEN Throw(t1, "FILE_NOT_FOUND")
  ELSE IF t1[node].kind = "directory" THEN Throw(t1, "NOT_A_FILE")
  ELSE notifyWatchers(removeChild(t1, parent, rp.name, cx.now),
                      rp.fullPath, "unlink", cx)

\* deleteFile after "const parent = this.getDirectoryOrNull(parentPath)"
deleteFileIn(rp, d, cx) ==
  IF ~d.found THEN Throw(d.t, "FILE_NOT_FOUND")
  ELSE deleteFileChild(rp, d.path, touch(d.t, d.path, cx.now),
                       Append(d.path, rp.name), cx)

\* deleteFile after "const resolved = resolvePath(filePath)"
deleteFileFrom(t, rp, cx) ==
  IF ~rp.ok THEN Throw(t, "INVALID_PATH")
  ELSE deleteFileIn(rp, getDirectoryOrNull(t, rp.parentPath, cx), cx)

deleteFile(t, filePath, cx) == deleteFileFrom(t, resolvePath(filePath), cx)

RECURSIVE writeFile(_, _, _, _, _)
\* copyFile after "const content = await this.readFile(srcPath)"
\* (the content is the Buffer that readFile made, which no caller holds)
copyFileRead(rd, destPath, cx) ==
  IF rd.err # OK THEN Throw(rd.t, rd.err)
  ELSE writeFile(rd.t, destPath, rd.ret, <<>>, [cx EXCEPT !.buffer = <<>>])

\* copyFile and moveFile, which writeFile's tempSuffix branch calls
copyFile(t, srcPath, destPath, cx) ==
  copyFileRead(readFile(t, srcPath, cx), destPath, cx)

\* moveFile after "await this.copyFile(srcPath, destPath)"
moveFileCopied(cp, srcPath, cx) ==
  IF cp.err # OK THEN cp ELSE andThen(cp.events, deleteFile(cp.t, srcPath, cx))

moveFile(t, srcPath, destPath, cx) ==
  moveFileCopied(copyFile(t, srcPath, destPath, cx), srcPath, cx)

\* writeFile's tempSuffix branch after "await this.writeFileInternal(tempPath, ...)"
writeFileTemp(w, tempPath, filePath, cx) ==
  IF w.err # OK THEN w ELSE andThen(w.events, moveFile(w.t, tempPath, filePath, cx))

\* writeFile's tempSuffix branch after "const tempPath = filePath + options.tempSuffix"
writeFileVia(t, tempPath, filePath, content, cx) ==
  writeFileTemp(writeFileInternal(t, tempPath, content, cx), tempPath, filePath, cx)

\* writeFile(filePath, content, {tempSuffix}); tempSuffix <<>> is "no option"
\* (an empty string is falsy).  content is a byte sequence: the encoding
\* option only turns a string into one before this point.
writeFile(t, filePath, content, tempSuffix, cx) ==
  IF tempSuffix # <<>>
  THEN writeFileVia(t, filePath \o tempSuffix, filePath, content, cx)
  ELSE writeFileInternal(t, filePath, content, cx)

\* appendFile after "const node = this.resolveNode(filePath, true)"
appendFileTo(r, filePath, content, cx) ==
  IF r.err # OK THEN Throw(r.t, r.err)
  ELSE IF ~r.found THEN writeFile(r.t, filePath, content, <<>>, cx)
  ELSE IF r.t[r.path].kind # "file" THEN Throw(r.t, "NOT_A_FILE")
  ELSE Done(append(r.t, r.path, content, cx.now))

appendFile(t, filePath, content, cx) ==
  appendFileTo(resolveNode(t, filePath, TRUE, 0, cx), filePath, content, cx)

(***************************************************************************)
(* VirtualFileSystem: symlinks and queries                                 *)
(***************************************************************************)
\* createSymlink after "const parent = this.getDirectory(parentPath)"
createSymlinkIn(rp, d, target, cx) ==
  IF d.err # OK THEN Throw(d.t, d.err)
  ELSE IF Append(d.path, rp.name) \in DOMAIN d.t
  THEN Throw(d.t, "FILE_ALREADY_EXISTS")
  ELSE Done(addChild(d.t, d.path,
                     constructed(VFSSymlink(target, cx.now), rp.name, d.t, cx), cx.now))

\* createSymlink after "await this.createDirectory(parentPath, true)"
createSymlinkMade(rp, c, target, cx) ==
  IF c.err # OK THEN c
  ELSE andThen(c.events,
             createSymlinkIn(rp, getDirectory(c.t, rp.parentPath, cx), target, cx))

\* createSymlink after "const resolved = resolvePath(linkPath)"
createSymlinkFrom(t, rp, target, cx) ==
  IF ~rp.ok THEN Throw(t, "INVALID_PATH")
  ELSE createSymlinkMade(rp, createDirectory(t, rp.parentPath, TRUE, cx), target, cx)

createSymlink(t, target, linkPath, cx) ==
  createSymlinkFrom(t, resolvePath(linkPath), target, cx)

\* readSymlink after "const node = this.resolveNode(linkPath, false)"
targetOf(r) ==
  IF r.err # OK THEN ThrowV(r.t, r.err)
  ELSE IF ~r.found THEN ThrowV(r.t, "FILE_NOT_FOUND")
  ELSE IF r.t[r.path].kind # "symlink" THEN ThrowV(r.t, "NOT_A_SYMLINK")
  ELSE Return(r.t, r.t[r.path].target)

readSymlink(t, linkPath, cx) == targetOf(resolveNode(t, linkPath, FALSE, 0, cx))

\* what exists, isFile, isDirectory and isSymlink answer for a resolution r:
\* the catch turns any throw into false
answer(r, kinds) ==
  Return(r.t, r.err = OK /\ r.found /\ r.t[r.path].kind \in kinds)

exists(t, targetPath_, cx) ==
  answer(resolveNode(t, targetPath_, FALSE, 0, cx), {"file", "directory", "symlink"})

isFile(t, targetPath_, cx) ==
  answer(resolveNode(t, targetPath_, TRUE, 0, cx), {"file"})

isDirectory(t, targetPath_, cx) ==
  answer(resolveNode(t, targetPath_, TRUE, 0, cx), {"directory"})

isSymlink(t, targetPath_, cx) ==
  answer(resolveNode(t, targetPath_, FALSE, 0, cx), {"symlink"})

\* the stats of a resolution r: the kind of the node found (the stats record's
\* isFile / isDirectory / isSymlink)
statsOf(r) ==
  IF r.err # OK THEN ThrowV(r.t, r.err)
  ELSE IF ~r.found THEN ThrowV(r.t, "FILE_NOT_FOUND")
  ELSE Return(r.t, r.t[r.path].kind)

getStats(t, targetPath_, cx) == statsOf(resolveNode(t, targetPath_, TRUE, 0, cx))

getLinkStats(t, targetPath_, cx) == statsOf(resolveNode(t, targetPath_, FALSE, 0, cx))

(***************************************************************************)
(* VirtualFileSystem: snapshots and diff                                   *)
(*                                                                         *)
(* The snapshot id `snapshot-${n}` is kept as the number n; an omitted id  *)
(* argument is 0.  A stored snapshot is the cloned root with its subtree.  *)
(***************************************************************************)
\* the nodes at the given real paths touched (getChildren, getChild, read)
touchAll(t, ps, now) ==
  [q \in DOMAIN t |-> IF q \in ps THEN [t[q] EXCEPT !.accessedTime = now] ELSE t[q]]

directoriesOf(t) == {q \in DOMAIN t : t[q].kind = "directory"}

\* VFSDirectory.clone with the clone of every node below it: the fields are
\* copied and a file's content is a new Buffer, Buffer.from(this.content)
\* a set as a sequence, in the order the model iterates a directory's children
RECURSIVE iteration(_)
iteration(S) ==
  IF S = {} THEN <<>>
  ELSE LET x == CHOOSE y \in S : TRUE IN <<x>> \o iteration(S \ {x})

placeIn(s, x) == CHOOSE k \in DOMAIN s : s[k] = x

\* a clone that hands back the objects it was to copy
cloneShallow(t, used, cx) == t

\* (used: the identities of the objects there are when the clone is made)
clone(t, used, cx) ==
  [q \in DOMAIN t |->
     [t[q] EXCEPT !.buffer = <<>>,
                  !.id = IF cx.objects = <<>> THEN 0
                         ELSE greatest(used) + placeIn(iteration(DOMAIN t), q)]]

\* countNodes(this.root): getChildren touches every directory of the live tree;
\* clone() reads the fields directly and touches nothing
createSnapshot(t, snaps, counter, cx) ==
  LET id == counter + 1
      clonedRoot == clone(t, idsOf(t) \cup idsIn(snaps), cx)
  IN  [t |-> touchAll(t, directoriesOf(t), cx.now),
       snapshots |-> [i \in DOMAIN snaps \cup {id} |->
                        IF i = id THEN clonedRoot ELSE snaps[i]],
       snapshotCounter |-> id,
       err |-> OK, ret |-> id]

\* a restoreSnapshot that skips the clearing of the root: the clone's top-level
\* nodes replace their namesakes and every other live node stays
restoreSnapshotOverLive(t, snaps, id, cx) ==
  IF id \notin DOMAIN snaps THEN Throw(t, PLAIN_ERROR)
  ELSE LET cloned == clone(snaps[id], idsOf(t) \cup idsIn(snaps), cx)
           kept == {q \in DOMAIN t : q = <<>> \/ <<q[1]>> \notin DOMAIN cloned}
       IN  Done([q \in kept \cup DOMAIN cloned |->
                   IF q \in kept THEN t[q] ELSE cloned[q]])

\* clear the root, then addChild every top-level node of a fresh clone
restoreSnapshot(t, snaps, id, cx) ==
  IF id \notin DOMAIN snaps THEN Throw(t, PLAIN_ERROR)
  ELSE LET cleared == clearRoot(t, cx.now)
           cloned == clone(snaps[id], idsOf(cleared) \cup idsIn(snaps), cx)
           filled == [q \in DOMAIN cloned |->
                        IF q = <<>> THEN cleared[<<>>] ELSE cloned[q]]
       IN  Done(IF childrenOf(cloned, <<>>) = {} THEN filled
                ELSE markModified(filled, <<>>, cx.now))

namesIn(t, d) == {q[Len(q)] : q \in childrenOf(t, d)}

NoDiff == [diffs |-> <<>>, touchedFrom |-> {}, touchedTo |-> {}]

mergeDiff(a, b) ==
  [diffs |-> a.diffs \o b.diffs,
   touchedFrom |-> a.touchedFrom \cup b.touchedFrom,
   touchedTo |-> a.touchedTo \cup b.touchedTo]

RECURSIVE computeDiff(_, _, _, _, _, _)
RECURSIVE computeDiffTo(_, _, _, _, _, _, _)
RECURSIVE computeDiffFrom(_, _, _, _, _, _, _)
\* the first loop of computeDiff, over the names of toChildren still to visit
computeDiffTo(ft, hasFrom, from, tt, to, basePath, names) ==
  IF names = <<>> THEN NoDiff
  ELSE
  LET name == Head(names)
      path == basePath \o <<"/">> \o name
      toNode == Append(to, name)
      fromNode == Append(from, name)
      inFrom == hasFrom /\ fromNode \in DOMAIN ft
      here ==
        IF ~inFrom
        THEN IF tt[toNode].kind = "file"
             THEN [diffs |-> << [type |-> "added", path |-> path,
                                 oldContent |-> <<>>,
                                 newContent |-> tt[toNode].content] >>,
                   touchedFrom |-> {}, touchedTo |-> {toNode}]
             ELSE NoDiff
        ELSE IF tt[toNode].kind = "file" /\ ft[fromNode].kind = "file"
        THEN [diffs |-> IF ft[fromNode].content # tt[toNode].content
                        THEN << [type |-> "modified", path |-> path,
                                 oldContent |-> ft[fromNode].content,
                                 newContent |-> tt[toNode].content] >>
                        ELSE <<>>,
              touchedFrom |-> {fromNode}, touchedTo |-> {toNode}]
        ELSE NoDiff
      below ==
        IF tt[toNode].kind = "directory"
        THEN computeDiff(ft, inFrom /\ ft[fromNode].kind = "directory", fromNode,
                         tt, toNode, path)
        ELSE NoDiff
  IN  mergeDiff(mergeDiff(here, below),
                computeDiffTo(ft, hasFrom, from, tt, to, basePath, Tail(names)))

\* the second loop of computeDiff, over the names of fromChildren
computeDiffFrom(ft, hasFrom, from, tt, to, basePath, names) ==
  IF names = <<>> THEN NoDiff
  ELSE
  LET name == Head(names)
      path == basePath \o <<"/">> \o name
      fromNode == Append(from, name)
      here ==
        IF Append(to, name) \notin DOMAIN tt /\ ft[fromNode].kind = "file"
        THEN [diffs |-> << [type |-> "deleted", path |-> path,
                            oldContent |-> ft[fromNode].content,
                            newContent |-> <<>>] >>,
              touchedFrom |-> {fromNode}, touchedTo |-> {}]
        ELSE NoDiff
  IN  mergeDiff(here,
                computeDiffFrom(ft, hasFrom, from, tt, to, basePath, Tail(names)))

\* computeDiff(from, to, basePath, diffs): from is the directory at real path
\* `from` of tree ft when hasFrom, undefined otherwise; to is at `to` of tt
computeDiff(ft, hasFrom, from, tt, to, basePath) ==
  LET fromNames == IF hasFrom THEN iteration(namesIn(ft, from)) ELSE <<>>
      toNames == iteration(namesIn(tt, to))
      listed == [diffs |-> <<>>,
                 touchedFrom |-> IF hasFrom THEN {from} ELSE {},
                 touchedTo |-> {to}]
  IN  mergeDiff(listed,
        mergeDiff(computeDiffTo(ft, hasFrom, from, tt, to, basePath, toNames),
                  computeDiffFrom(ft, hasFrom, from, tt, to, basePath, fromNames)))

\* new VFSDirectory(''), the empty tree diff starts from when fromId is omitted
emptyTree(cx) ==
  [q \in {<<>>} |-> VFSDirectory(DEFAULT_OPTIONS.defaultDirectoryMode, cx.now)]

\* diff(fromId, toId): the records, and the trees as the reads leave them
diff(t, snaps, fromId, toId, cx) ==
  IF fromId # 0 /\ fromId \notin DOMAIN snaps
  THEN [t |-> t, snapshots |-> snaps, err |-> PLAIN_ERROR, ret |-> <<>>]
  ELSE IF toId # 0 /\ toId \notin DOMAIN snaps
  THEN [t |-> t, snapshots |-> snaps, err |-> PLAIN_ERROR, ret |-> <<>>]
  ELSE
  LET ft == IF fromId # 0 THEN snaps[fromId] ELSE emptyTree(cx)
      tt == IF toId # 0 THEN snaps[toId] ELSE t
      d == computeDiff(ft, TRUE, <<>>, tt, <<>>, <<>>)
      touchedIn(i) == (IF i = fromId THEN d.touchedFrom ELSE {})
                      \cup (IF i = toId THEN d.touchedTo ELSE {})
  IN  [t |-> IF toId = 0 THEN touchAll(t, d.touchedTo, cx.now) ELSE t,
       snapshots |-> [i \in DOMAIN snaps |-> touchAll(snaps[i], touchedIn(i), cx.now)],
       err |-> OK, ret |-> d.diffs]

\* reset(): the root emptied, the snapshots dropped, the counter back to 0
reset(t, cx) == clearRoot(t, cx.now)

(***************************************************************************)
(* VirtualFileSystem: glob                                                 *)
(***************************************************************************)
\* the compiled pattern is a sequence of these and of literal characters
GLOBSTAR == ".*"
STAR == "[^/]*"
QUESTION == "[^/]"

RECURSIVE patternToRegex(_)
\* patternToRegex(pattern): every character but * and ? stands for itself (the
\* metacharacters are escaped), ** is replaced before *, then ?
patternToRegex(pattern) ==
  IF pattern = <<>> THEN <<>>
  ELSE IF Len(pattern) >= 2 /\ pattern[1] = "*" /\ pattern[2] = "*"
  THEN <<GLOBSTAR>> \o patternToRegex(SubSeq(pattern, 3, Len(pattern)))
  ELSE IF pattern[1] = "*" THEN <<STAR>> \o patternToRegex(Tail(pattern))
  ELSE IF pattern[1] = "?" THEN <<QUESTION>> \o patternToRegex(Tail(pattern))
  ELSE <<pattern[1]>> \o patternToRegex(Tail(pattern))

RECURSIVE regexTest(_, _)
\* new RegExp(`^${regex}$`).test(s); "." matches no line terminator
regexTest(regex, s) ==
  IF regex = <<>> THEN s = <<>>
  ELSE IF Head(regex) = GLOBSTAR
  THEN \E k \in 0..Len(s) :
         /\ \A i \in 1..k : s[i] \notin {"\n", "\r"}
         /\ regexTest(Tail(regex), SubSeq(s, k + 1, Len(s)))
  ELSE IF Head(regex) = STAR
  THEN \E k \in 0..Len(s) :
         /\ \A i \in 1..k : s[i] # "/"
         /\ regexTest(Tail(regex), SubSeq(s, k + 1, Len(s)))
  ELSE IF Head(regex) = QUESTION
  THEN s # <<>> /\ s[1] # "/" /\ regexTest(Tail(regex), Tail(s))
  ELSE s # <<>> /\ s[1] = Head(regex) /\ regexTest(Tail(regex), Tail(s))

\* matchesIgnore(path, ignorePatterns)
matchesIgnore(path, ignorePatterns) ==
  \E i \in 1..Len(ignorePatterns) :
    \/ regexTest(patternToRegex(ignorePatterns[i]), path)
    \/ regexTest(patternToRegex(ignorePatterns[i]), basename(path))

\* String.prototype.slice(start), start counted from 0
slice(s, start) == SubSeq(s, start + 1, Len(s))

\* the characters of the paths and patterns, in the order of their code units
CodeUnits ==
  << " ", "*", ".", "/", "?", "\\",
     "a", "b", "c", "d", "e", "f", "g", "h", "i", "j", "k", "l", "m",
     "n", "o", "p", "q", "r", "s", "t", "u", "v", "w", "x", "y", "z" >>

charCodeAt(c) == CHOOSE i \in 1..Len(CodeUnits) : CodeUnits[i] = c

RECURSIVE precedes(_, _)
\* a < b for two strings: the first differing code unit decides, a prefix comes first
precedes(a, b) ==
  IF b = <<>> THEN FALSE
  ELSE IF a = <<>> THEN TRUE
  ELSE IF Head(a) # Head(b) THEN charCodeAt(Head(a)) < charCodeAt(Head(b))
  ELSE precedes(Tail(a), Tail(b))

RECURSIVE insertSorted(_, _)
insertSorted(x, s) ==
  IF s = <<>> THEN <<x>>
  ELSE IF precedes(Head(s), x) THEN <<Head(s)>> \o insertSorted(x, Tail(s))
  ELSE <<x>> \o s

RECURSIVE sort(_)
\* Array.prototype.sort() without a comparator, on strings
sort(s) == IF s = <<>> THEN <<>> ELSE insertSorted(Head(s), sort(Tail(s)))

\* the depth at which a traversal is cut; no tree of the inputs is this deep, so a
\* traversal that gets here goes round a symlink to a directory above it
MaxStack == 4

\* what ends a traversal that goes round for ever: nodePath grows at every level
\* until resolveNode's validatePath throws InvalidPathError for a path longer
\* than MAX_PATH_LENGTH, or the call stack is exhausted first (RangeError)
OUTGROWN == "INVALID_PATH or RangeError"

\* what a traversal has pushed to results, or the error that ended it
NoResults == [err |-> OK, results |-> <<>>, touched |-> {}]

pushed(own, r) == [err |-> r.err, results |-> own \o r.results, touched |-> r.touched]

\* dir.getChildren() has touched the directory at real path dir before the loop
\* that left r
listed(dir, r) == [r EXCEPT !.touched = @ \cup {dir}]

\* Array.prototype.reverse
RECURSIVE reverse(_)
reverse(s) == IF s = <<>> THEN <<>> ELSE Append(reverse(Tail(s)), Head(s))

\* the names of the children of dir in the order its Map holds them, which is
\* the order they were added in: one of two opposite orders
childNames(t, dir, g) ==
  IF g.order = "reverse" THEN reverse(iteration(namesIn(t, dir)))
  ELSE iteration(namesIn(t, dir))

\* "const nodePath = currentPath === '/' ? `/${node.name}` : `${currentPath}/${node.name}`"
nodePathOf(currentPath, name) ==
  IF currentPath = ROOT THEN <<"/">> \o name ELSE currentPath \o <<"/">> \o name

\* "const relativePath = nodePath.slice(cwd.length + 1) || node.name"
relativePathOf(nodePath, name, cwd) ==
  IF slice(nodePath, Len(cwd) + 1) = <<>> THEN name ELSE slice(nodePath, Len(cwd) + 1)

shouldInclude(kind, g) ==
  \/ ~g.onlyFiles /\ ~g.onlyDirectories
  \/ g.onlyFiles /\ kind = "file"
  \/ g.onlyDirectories /\ kind = "directory"

RECURSIVE traverse(_, _, _, _, _)
\* traverse's loop body from "if (regex.test(relativePath))" on; effective is the
\* real path of effectiveNode
traverseMatched(t, nodePath, relativePath, effective, depth, g) ==
  pushed(IF regexTest(g.regex, relativePath) /\ shouldInclude(t[effective].kind, g)
         THEN << IF g.absolute THEN nodePath ELSE relativePath >>
         ELSE <<>>,
         IF t[effective].kind = "directory"
         THEN traverse(t, effective, nodePath, depth + 1, g)
         ELSE NoResults)

\* the directories a resolveNode or getDirectory that left r has touched in t
touchedBy(t, r) == {q \in DOMAIN t : r.t[q] # t[q]}

andTouched(touched, r) == [r EXCEPT !.touched = @ \cup touched]

\* traverse's loop body after "const resolved = this.resolveNode(nodePath, true)"
traverseResolved(t, resolved, nodePath, relativePath, depth, g) ==
  IF resolved.err # OK
  THEN [err |-> resolved.err, results |-> <<>>, touched |-> touchedBy(t, resolved)]
  ELSE IF ~resolved.found THEN andTouched(touchedBy(t, resolved), NoResults)
  ELSE andTouched(touchedBy(t, resolved),
                  traverseMatched(t, nodePath, relativePath, resolved.path, depth, g))

\* a traversal that takes no notice of the ignore patterns
traverseChildUnignored(t, dir, name, nodePath, depth, g) ==
  IF ~g.dot /\ startsWith(name, <<".">>) THEN NoResults
  ELSE IF t[Append(dir, name)].kind = "symlink" /\ g.followSymlinks
  THEN traverseResolved(t, resolveNode(t, nodePath, TRUE, 0, g.cx), nodePath,
                        relativePathOf(nodePath, name, g.cwd), depth, g)
  ELSE traverseMatched(t, nodePath, relativePathOf(nodePath, name, g.cwd),
                       Append(dir, name), depth, g)

\* traverse's loop body for the child called name of the directory at real path dir
traverseChild(t, dir, name, nodePath, depth, g) ==
  IF ~g.dot /\ startsWith(name, <<".">>) THEN NoResults
  ELSE IF matchesIgnore(nodePath, g.ignore) THEN NoResults
  ELSE IF t[Append(dir, name)].kind = "symlink" /\ g.followSymlinks
  THEN traverseResolved(t, resolveNode(t, nodePath, TRUE, 0, g.cx), nodePath,
                        relativePathOf(nodePath, name, g.cwd), depth, g)
  ELSE traverseMatched(t, nodePath, relativePathOf(nodePath, name, g.cwd),
                       Append(dir, name), depth, g)

RECURSIVE traverseChildren(_, _, _, _, _, _)
\* traverse's loop after the child whose results are first
traverseRest(first, t, dir, currentPath, depth, names, g) ==
  IF first.err # OK THEN first
  ELSE andTouched(first.touched,
                  pushed(first.results,
                         traverseChildren(t, dir, currentPath, depth, names, g)))

\* traverse's loop "for (const node of dir.getChildren())" over the names left
traverseChildren(t, dir, currentPath, depth, names, g) ==
  IF names = <<>> THEN NoResults
  ELSE traverseRest(traverseChild(t, dir, Head(names),
                                  nodePathOf(currentPath, Head(names)), depth, g),
                    t, dir, currentPath, depth, Tail(names), g)

\* a traverse that stops one level early
traverseShallow(t, dir, currentPath, depth, g) ==
  IF g.maxDepth # <<>> /\ depth >= g.maxDepth[1] THEN NoResults
  ELSE IF depth > MaxStack THEN [err |-> OUTGROWN, results |-> <<>>, touched |-> {}]
  ELSE listed(dir, traverseChildren(t, dir, currentPath, depth, childNames(t, dir, g), g))

\* traverse(dir, currentPath, depth); maxDepth <<>> is Infinity
traverse(t, dir, currentPath, depth, g) ==
  IF g.maxDepth # <<>> /\ depth > g.maxDepth[1] THEN NoResults
  ELSE IF depth > MaxStack THEN [err |-> OUTGROWN, results |-> <<>>, touched |-> {}]
  ELSE listed(dir, traverseChildren(t, dir, currentPath, depth, childNames(t, dir, g), g))

\* glob after "const startDir = this.getDirectoryOrNull(cwd)"
globFrom(t, startDir, g) ==
  IF ~startDir.found THEN andTouched(touchedBy(t, startDir), NoResults)
  ELSE andTouched(touchedBy(t, startDir), traverse(t, startDir.path, g.cwd, 0, g))

\* a glob that returns results as the traversal pushed them
globUnsorted(t, r, cx) ==
  IF r.err # OK THEN ThrowV(touchAll(t, r.touched, cx.now), r.err)
  ELSE [t |-> touchAll(t, r.touched, cx.now), err |-> OK, ret |-> r.results,
        events |-> <<>>]

\* "return results.sort()"
globSorted(t, r, cx) ==
  IF r.err # OK THEN ThrowV(touchAll(t, r.touched, cx.now), r.err)
  ELSE [t |-> touchAll(t, r.touched, cx.now), err |-> OK, ret |-> sort(r.results),
        events |-> <<>>]

\* glob's options with their defaults: cwd <<>> and maxDepth <<>> are "not given"
globOptions(pattern, o, order, cx) ==
  [cwd |-> IF o.cwd # <<>> THEN normalizePath(o.cwd) ELSE ROOT,
   maxDepth |-> o.maxDepth,
   onlyFiles |-> o.onlyFiles,
   onlyDirectories |-> o.onlyDirectories,
   followSymlinks |-> o.followSymlinks,
   dot |-> o.dot,
   absolute |-> o.absolute,
   ignore |-> o.ignore,
   regex |-> patternToRegex(pattern),
   order |-> order,
   cx |-> cx]

\* glob after the options are read
globWith(t, g) ==
  globSorted(t, globFrom(t, getDirectoryOrNull(t, g.cwd, g.cx), g), g.cx)

\* glob(pattern, options) on a tree whose directories hold their children in
\* the given order
glob(t, pattern, o, order, cx) == globWith(t, globOptions(pattern, o, order, cx))

(***************************************************************************)
(* VFSWatcher and its Debouncer                                            *)
(*                                                                         *)
(* A watcher is a record of the fields of VFSWatcher (watchPath, options,  *)
(* closed, knownPaths), of its SimpleEventEmitter (handlers: for each      *)
(* event name that has any, the handlers in the order they were added) and *)
(* of its Debouncer (pending: the entries of the Map in insertion order;   *)
(* timer: <<>> when null, <<n>> when armed with n units of time left).     *)
(* ready tells whether the timer that watch() sets for emitReady is still  *)
(* armed.  Some fields only observe the run: invoked lists the handler     *)
(* calls made so far; a pending entry has the time since it was last added *)
(* (age) and the number of add calls it stands for (merged); initial holds *)
(* the files that existed when the watcher was created and have not been   *)
(* removed since; heard is the number of handler calls made before the     *)
(* last notification.                                                      *)
(***************************************************************************)
NoHandlers == [e \in {} |-> <<>>]

\* new Debouncer(callback, delay) inside new VFSWatcher(watchPath, options)
VFSWatcher(watchPath, o) ==
  [watchPath |-> normalizePath(watchPath), options |-> o, closed |-> FALSE,
   knownPaths |-> {}, handlers |-> NoHandlers, pending |-> <<>>, timer |-> <<>>,
   ready |-> FALSE, invoked |-> <<>>, initial |-> {}, heard |-> 0]

\* Map.prototype.set: a key already present keeps its place
mapSet(m, key, item) ==
  IF \E k \in DOMAIN m : m[k].key = key
  THEN [k \in DOMAIN m |-> IF m[k].key = key THEN item ELSE m[k]]
  ELSE Append(m, item)

\* scheduleFlush had it left an armed timer running
scheduleFlushOnce(w) ==
  IF w.timer # <<>> THEN w ELSE [w EXCEPT !.timer = <<w.options.debounce>>]

\* Debouncer.scheduleFlush: clearTimeout, then setTimeout(flush, delay)
scheduleFlush(w) == [w EXCEPT !.timer = <<w.options.debounce>>]

\* the number of add calls that the pending entry of key stands for
mergedIn(m, key) ==
  IF \E k \in DOMAIN m : m[k].key = key
  THEN m[CHOOSE k \in DOMAIN m : m[k].key = key].merged
  ELSE 0

\* Debouncer.add(key, item)
add(w, key, event) ==
  scheduleFlush([w EXCEPT !.pending =
                   mapSet(@, key, [key |-> key, event |-> event, age |-> 0,
                                   merged |-> mergedIn(@, key) + 1])])

\* Debouncer.remove(key): this.pending.delete(key); the timer is left as it is
remove(w, key) ==
  [w EXCEPT !.pending = SelectSeq(@, LAMBDA item : item.key # key)]

\* Debouncer.cancel
cancel(w) == [w EXCEPT !.timer = <<>>, !.pending = <<>>]

\* VFSWatcher.close: closed, debouncer.cancel(), removeAllListeners(), knownPaths.clear()
close(w) ==
  IF w.closed THEN w
  ELSE [cancel(w) EXCEPT !.closed = TRUE, !.handlers = NoHandlers, !.knownPaths = {}]

\* isSubPath(childPath, parentPath)
isSubPath(childPath, parentPath) ==
  /\ normalizePath(childPath) # normalizePath(parentPath)
  /\ startsWith(normalizePath(childPath),
                IF normalizePath(parentPath) = ROOT THEN ROOT
                ELSE normalizePath(parentPath) \o <<"/">>)

\* VFSWatcher.getPathDepth
watcherPathDepth(w, path) ==
  IF path = w.watchPath THEN 0
  ELSE Len(filterBoolean(split(slice(path, Len(w.watchPath)), "/")))

\* VFSWatcher.shouldWatch; options.depth is <<>> for Infinity, and no option
\* object of the inputs sets ignored
shouldWatch(w, path) ==
  /\ path = w.watchPath \/ isSubPath(path, w.watchPath)
  /\ w.options.depth = <<>> \/ watcherPathDepth(w, path) <= w.options.depth[1]

\* notifyChange after "const isNew = !this.knownPaths.has(normalizedPath)"
notifyChangeKnown(w, normalizedPath, isNew) ==
  add([w EXCEPT !.knownPaths = @ \cup {normalizedPath}], normalizedPath,
      [type |-> IF isNew THEN "add" ELSE "change", path |-> normalizedPath])

\* VFSWatcher.notifyChange
notifyChange(w, path) ==
  IF w.closed \/ ~shouldWatch(w, normalizePath(path)) THEN w
  ELSE notifyChangeKnown(w, normalizePath(path),
                         normalizePath(path) \notin w.knownPaths)

\* VFSWatcher.notifyUnlink
notifyUnlink(w, path, isDir) ==
  IF w.closed \/ ~shouldWatch(w, normalizePath(path)) THEN w
  ELSE add([w EXCEPT !.knownPaths = @ \ {normalizePath(path)}], normalizePath(path),
           [type |-> IF isDir THEN "unlinkDir" ELSE "unlink",
            path |-> normalizePath(path)])

\* VFSWatcher.notifyAddDir
notifyAddDir(w, path) ==
  IF w.closed \/ ~shouldWatch(w, normalizePath(path)) THEN w
  ELSE add([w EXCEPT !.knownPaths = @ \cup {normalizePath(path)}], normalizePath(path),
           [type |-> "addDir", path |-> normalizePath(path)])

\* VFSWatcher.registerPath
registerPath(w, path) == [w EXCEPT !.knownPaths = @ \cup {normalizePath(path)}]

\* SimpleEventEmitter.on: the handlers of an event are a Set
on(w, event, handler) ==
  IF event \notin DOMAIN w.handlers
  THEN [w EXCEPT !.handlers = [e \in DOMAIN @ \cup {event} |->
                                 IF e = event THEN <<handler>> ELSE @[e]]]
  ELSE IF \E k \in DOMAIN w.handlers[event] : w.handlers[event][k] = handler
  THEN w
  ELSE [w EXCEPT !.handlers[event] = Append(@, handler)]

\* what a handler does when it is called with an event: the call is noted, with
\* whether the watcher was closed by then, and a "close" handler closes the watcher
noted(w, handler, item) ==
  [w EXCEPT !.invoked = Append(@, [handler |-> handler, event |-> item.event,
                                   merged |-> item.merged, late |-> w.closed])]

called(w, handler, item) ==
  IF handler = "close" THEN close(noted(w, handler, item))
  ELSE noted(w, handler, item)

\* the loop of emit over the Set of handlers it read before its first call
RECURSIVE emitTo(_, _, _)
emitTo(w, handlers, item) ==
  IF handlers = <<>> THEN w
  ELSE emitTo(called(w, Head(handlers), item), Tail(handlers), item)

\* SimpleEventEmitter.emit(event, ...args)
emit(w, name, item) ==
  IF name \notin DOMAIN w.handlers THEN w
  ELSE emitTo(w, w.handlers[name], item)

\* VFSWatcher.flushEvents: emit(event.type, event), then emit('all', event)
RECURSIVE flushEvents(_, _)
flushEvents(w, items) ==
  IF items = <<>> THEN w
  ELSE flushEvents(emit(emit(w, Head(items).event.type, Head(items)), "all", Head(items)),
                   Tail(items))

\* flush had it left the pending items in the Map
flushKeeping(w) ==
  IF w.pending = <<>> THEN [w EXCEPT !.timer = <<>>]
  ELSE flushEvents([w EXCEPT !.timer = <<>>], w.pending)

\* Debouncer.flush, which the timer calls
flush(w) ==
  IF w.pending = <<>> THEN [w EXCEPT !.timer = <<>>]
  ELSE flushEvents([w EXCEPT !.timer = <<>>, !.pending = <<>>], w.pending)

\* VFSWatcher.emitReady, which the timer set by watch() calls
emitReady(w) ==
  IF w.closed THEN [w EXCEPT !.ready = FALSE]
  ELSE emit([w EXCEPT !.ready = FALSE], "ready",
            [event |-> [type |-> "ready", path |-> <<>>], merged |-> 1])

\* the switch of notifyWatchers for one watcher
notifyWatcher(w, e) ==
  CASE e.type \in {"change", "add"} -> notifyChange(w, e.path)
    [] e.type = "unlink" -> notifyUnlink(w, e.path, FALSE)
    [] e.type = "addDir" -> notifyAddDir(w, e.path)
    [] e.type = "unlinkDir" -> notifyUnlink(w, e.path, TRUE)

\* what is observed of w when e is notified: the files that existed when w was
\* created and that a removal leaves, and the number of handler calls made so far
remaining(w, e) ==
  IF e.type \in {"unlink", "unlinkDir"}
  THEN [w EXCEPT !.heard = Len(w.invoked),
                 !.initial = {p \in @ : p # e.path /\ ~isSubPath(p, e.path)}]
  ELSE [w EXCEPT !.heard = Len(w.invoked)]

\* the loop of notifyWatchers over this.watchers, for every notification that a
\* call made, in the order it made them
RECURSIVE notifyAll(_, _)
notifyAll(ws, events) ==
  IF events = <<>> THEN ws
  ELSE notifyAll([i \in DOMAIN ws |-> notifyWatcher(remaining(ws[i], Head(events)),
                                                    Head(events))],
                 Tail(events))

\* the path of the entry of readDirectory(dirPath) for the child named name
entryPath(dirPath, name) ==
  IF normalizePath(dirPath) = ROOT THEN <<"/">> \o name
  ELSE normalizePath(dirPath) \o <<"/">> \o name

\* initializeWatcher's traverse(dirPath): what it registers and which directories
\* it touches (getDirectory and getChildren touch); a readDirectory that throws
\* ends the traversal of that directory
RECURSIVE traverseEntries(_, _, _)
traverseRead(t, dirPath, d, cx) ==
  IF d.err # OK THEN [known |-> {}, touched |-> touchedBy(t, d)]
  ELSE [known |->
          UNION { {entryPath(dirPath, c[Len(c)])}
                    \cup (IF t[c].kind = "directory"
                          THEN traverseEntries(t, entryPath(dirPath, c[Len(c)]), cx).known
                          ELSE {})
                  : c \in childrenOf(t, d.path) },
        touched |->
          touchedBy(t, d) \cup {d.path}
            \cup UNION { IF t[c].kind = "directory"
                         THEN traverseEntries(t, entryPath(dirPath, c[Len(c)]), cx).touched
                         ELSE {}
                         : c \in childrenOf(t, d.path) }]

traverseEntries(t, dirPath, cx) == traverseRead(t, dirPath, getDirectory(t, dirPath, cx), cx)

\* the files below the watch path when the watcher is created
initialFiles(t, known) ==
  {p \in known : \E q \in DOMAIN t : t[q].kind = "file"
                                      /\ p = <<"/">> \o joinWith(q, <<"/">>)}

\* initializeWatcher(watcher, basePath), run to its end
initializeWatcher(w, t, basePath, cx) ==
  [w EXCEPT !.knownPaths = {normalizePath(basePath)}
                             \cup traverseEntries(t, basePath, cx).known]

\* watch(watchPath, options): the new watcher
watcherOf(t, watchPath, o, cx) ==
  [(IF o.ignoreInitial THEN VFSWatcher(watchPath, o)
    ELSE initializeWatcher(VFSWatcher(watchPath, o), t, watchPath, cx))
   EXCEPT !.ready = TRUE,
          !.initial = initialFiles(t, traverseEntries(t, watchPath, cx).known
                                        \cup {normalizePath(watchPath)})]

\* watch(watchPath, options): the tree it leaves
watchedTree(t, watchPath, o, cx) ==
  IF o.ignoreInitial THEN t
  ELSE touchAll(t, traverseEntries(t, watchPath, cx).touched, cx.now)

\* time passes by one unit for a watcher: its timer counts down, its pending
\* entries age
elapsed(w) ==
  [w EXCEPT !.timer = IF @ = <<>> THEN @ ELSE <<@[1] - 1>>,
            !.pending = [k \in DOMAIN @ |-> [@[k] EXCEPT !.age = @ + 1]]]

(***************************************************************************)
(* The state machine                                                       *)
(***************************************************************************)
VARIABLES
  tree,             \* this.root and everything below it
  snapshots,        \* this.snapshots: id -> cloned root
  snapshotCounter,  \* this.snapshotCounter
  options,          \* this.options
  now,              \* the clock that new Date() reads
  last,             \* the last public call: [op, args, err, ret, changed, events]
  nops,             \* the number of calls made so far
  profile,          \* which family of inputs this run draws from
  captured,         \* id -> what the live tree held when createSnapshot returned id
  calls,            \* the calls made without awaiting the one before, in call order
  watchers,         \* the watchers that watch() returned, in the order of creation
  caller            \* what the caller holds: the snapshot ids it was given (ids) and
                    \* its Buffer objects with the bytes each holds now (buffers)

vars == <<tree, snapshots, snapshotCounter, options, now, last, nops, profile, captured,
          calls, watchers, caller>>

cx ==
  [now |-> now, options |-> options, buffer |-> <<>>,
   objects |-> IF profile = "nodes" THEN <<idsIn(snapshots)>> ELSE <<>>]

\* what the claims call the tree: names, node kinds, file contents, symlink targets
structure(t) ==
  [q \in DOMAIN t |-> [kind |-> t[q].kind, content |-> t[q].content,
                       target |-> t[q].target]]

(***************************************************************************)
(* Inputs.  Families of calls, each with its own bound on the number of    *)
(* calls of a run.                                                         *)
(***************************************************************************)
MaxOpsPaths == 2

MaxOpsSnap == 4

MaxOpsLinks == 3

MaxTime == 1

MaxSnapshots == 1

LinkDepth == 2

tmp == <<".", "t", "m", "p">>

\* one character more than validatePath accepts, in a path and in a segment
tooLongPath == [i \in 1..(MAX_PATH_LENGTH + 1) |-> IF i = 1 THEN "/" ELSE "a"]

tooLongSegment == [i \in 1..(MAX_SEGMENT_LENGTH + 2) |-> IF i = 1 THEN "/" ELSE "a"]

invalidPaths ==
  { <<>>,                                \* ''
    <<"/", "f", ".">>,                   \* '/f.'
    <<"/", "d", "/", "f", " ">>,         \* '/d/f '
    <<"/", "c", "o", "n">>,              \* '/con'
    <<"/", "a", "\t", "b">>,             \* a control character
    tooLongPath, tooLongSegment }

validPaths ==
  { <<"/">>,                             \* '/'
    <<"a">>,                             \* 'a'
    <<"/", "a">>,                        \* '/a'
    <<"/", "a", "/", "b", "/", "c">>,    \* '/a/b/c'
    <<"b", "/", "c">>,                   \* 'b/c'
    <<"/", "x", "\\", "c", "o", "n">> }  \* '/x\con'

bytes == { <<>>, <<1>>, <<2>> }

PathsInputs ==
         [maxOps |-> MaxOpsPaths,
          ticks |-> {1},
          paths |-> validPaths \cup invalidPaths,
          pairs |-> ({<<"/", "a">>} \X (validPaths \cup invalidPaths))
                    \cup ((validPaths \cup invalidPaths) \X {<<"/", "a">>}),
          queries |-> { <<"/", "a">>, <<"/", "a", "/", "b">>, <<"b">>, <<>> },
          contents |-> { <<>>, <<1>> },
          suffixes |-> { <<>>, tmp },
          targets |-> { <<"/", "a", ".", "t", "m", "p">> },
          options |-> [DEFAULT_OPTIONS EXCEPT !.maxSymlinkDepth = LinkDepth]]

SnapInputs ==
         [maxOps |-> MaxOpsSnap,
          ticks |-> {2},
          paths |-> { <<"/", "d", "/", "g">>, <<"/", "d">> },
          pairs |-> { << <<"/", "d", "/", "g">>, <<"/", "d">> >> },
          queries |-> { <<"/", "d", "/", "g">> },
          contents |-> { <<1>>, <<2>> },
          suffixes |-> { <<>> },
          targets |-> { <<"/", "d", "/", "g">> },
          options |-> [DEFAULT_OPTIONS EXCEPT !.maxSymlinkDepth = LinkDepth]]

LinksInputs ==
         [maxOps |-> MaxOpsLinks,
          ticks |-> {0},
          paths |-> { <<"/", "d", "/", "f">>, <<"/", "d", "/", "a">>,
                      <<"/", "d", "/", "b">> },
          pairs |-> { << <<"/", "d", "/", "a">>, <<"/", "d", "/", "b">> >> },
          queries |-> { <<"/", "d", "/", "a">> },
          contents |-> { <<1>> },
          suffixes |-> { <<>> },
          targets |-> { <<"f">>, <<"a">>, <<"b">>, <<"/", "d", "/", "a">>,
                        <<"/", "d", "/", "f">>, <<"/", "d">> },
          options |-> [DEFAULT_OPTIONS EXCEPT !.maxSymlinkDepth = LinkDepth]]

MaxOpsGlob == 3

\* glob's options when none is given
GlobDefaults ==
  [cwd |-> <<>>, maxDepth |-> <<>>, onlyFiles |-> FALSE, onlyDirectories |-> FALSE,
   followSymlinks |-> TRUE, dot |-> FALSE, absolute |-> TRUE, ignore |-> <<>>]

\* the option objects of the glob calls: '/ab' is the subdirectory cwd
GlobOptions ==
  { GlobDefaults,
    [GlobDefaults EXCEPT !.cwd = <<"/", "a", "b">>],
    [GlobDefaults EXCEPT !.absolute = FALSE],
    [GlobDefaults EXCEPT !.cwd = <<"/", "a", "b">>, !.absolute = FALSE],
    [GlobDefaults EXCEPT !.maxDepth = <<0>>],
    [GlobDefaults EXCEPT !.maxDepth = <<1>>],
    [GlobDefaults EXCEPT !.cwd = <<"/", "a", "b">>, !.maxDepth = <<0>>],
    [GlobDefaults EXCEPT !.onlyFiles = TRUE],
    [GlobDefaults EXCEPT !.onlyDirectories = TRUE],
    [GlobDefaults EXCEPT !.dot = TRUE],
    [GlobDefaults EXCEPT !.followSymlinks = FALSE],
    [GlobDefaults EXCEPT !.dot = TRUE, !.ignore = << <<"d", "e">> >>],
    [GlobDefaults EXCEPT !.dot = TRUE, !.ignore = << <<"a", "b", "/", "d", "e">> >>],
    [GlobDefaults EXCEPT !.dot = TRUE, !.ignore = << <<"/", "a", "b", "/", "d", "e">> >>],
    [GlobDefaults EXCEPT !.dot = TRUE, !.cwd = <<"/", "a", "b">>,
                         !.ignore = << <<"d", "e", "/", "*">> >>] }

\* the calls of the glob family: files, a hidden file and symlinks (to a
\* directory, to a file, to a missing node, to themselves) are made, then glob
\* is called
GlobInputs ==
         [maxOps |-> MaxOpsGlob,
          paths |-> { <<"/", "a", "b", "/", "c", ".", "t">>,
                      <<"/", "a", "b", "/", "d", "e", "/", "f", ".", "t">>,
                      <<"/", "a", "b", "/", ".", "h">> },
          contents |-> { <<1>> },
          suffixes |-> { <<>> },
          targets |-> { <<"/", "a", "b", "/", "d", "e">>,
                        <<"/", "a", "b", "/", "c", ".", "t">> },
          patterns |-> { <<"*", "*", "/", "*", ".", "t">>,
                         <<"*", "*">>,
                         <<"a", "b", "/", "*">>,
                         <<"?", ".", "t">> },
          globOptions |-> GlobOptions,
          options |-> [DEFAULT_OPTIONS EXCEPT !.maxSymlinkDepth = LinkDepth]]

\* the calls of the last family, which are made without awaiting one another
AsyncInputs ==
         [maxOps |-> 0,
          options |-> [DEFAULT_OPTIONS EXCEPT !.maxSymlinkDepth = LinkDepth]]

MaxPathLen == 7

\* the characters of the path strings given to the pure path functions
PathChars == {"/", "\\", ".", "a"}

\* every string of at most MaxPathLen of these characters, the empty one included
PathStrings == UNION {[1..n -> PathChars] : n \in 0..MaxPathLen}

NormalizeInputs ==
  [ maxOps |-> 1, options |-> DEFAULT_OPTIONS, strings |-> PathStrings ]

MaxOpsWatch == 5

MaxWatchers == 1

\* the debounce option of the watchers, in units of time
Debounce == 2

\* the option objects of the watch calls; depth <<>> is the default, Infinity
WatchOptions ==
  { [debounce |-> Debounce, ignoreInitial |-> FALSE, depth |-> <<>>],
    [debounce |-> Debounce, ignoreInitial |-> TRUE, depth |-> <<>>],
    [debounce |-> Debounce, ignoreInitial |-> FALSE, depth |-> <<1>>] }

\* the handlers that the caller adds: "note" only takes the event, "close" also
\* closes the watcher it was added to
Listeners ==
  { [event |-> "add", handler |-> "note"],
    [event |-> "add", handler |-> "close"],
    [event |-> "change", handler |-> "note"] }

WatchInputs ==
  [ maxOps |-> MaxOpsWatch,
    options |-> DEFAULT_OPTIONS,
    paths |-> { <<"/", "d", "/", "f">>, <<"/", "d">> },
    contents |-> { <<1>> },
    suffixes |-> { <<>> },
    watchPaths |-> { <<"/">>, <<"/", "d">> },
    watchOptions |-> WatchOptions,
    listeners |-> Listeners ]

MaxOpsResolve == 3

\* the calls of the symlink-resolution family: targets that name a symlink, the
\* link itself, its directory, a path through another symlink ('/d/a/f'), and a
\* target that fails validation ('f ')
ResolveInputs ==
  [ maxOps |-> MaxOpsResolve,
    paths |-> { <<"/", "d", "/", "f">>, <<"/", "d", "/", "a">>, <<"/", "d", "/", "b">> },
    contents |-> { <<1>> },
    suffixes |-> { <<>> },
    targets |-> { <<"/", "d", "/", "a">>, <<"/", "d", "/", "b">>, <<"/", "d">>,
                  <<"/", "d", "/", "a", "/", "f">>, <<"/", "d", "/", "f">>,
                  <<"f", " ">> },
    options |-> [DEFAULT_OPTIONS EXCEPT !.maxSymlinkDepth = LinkDepth] ]

\* the caller's Buffers: the calls that take a Buffer, the Buffers readFile
\* returns, and the caller writing into a Buffer it holds
MaxOpsBuffers == 4

\* the number of Buffers the caller keeps; a Buffer returned when it holds this
\* many is dropped
MaxBuffers == 3

BufferInputs ==
  [ maxOps |-> MaxOpsBuffers,
    paths |-> { <<"/", "f">>, <<"/", "g">> },
    contents |-> { <<1>>, <<2>> },
    suffixes |-> { <<>> },
    buffers |-> << <<1>>, <<2>> >>,
    options |-> DEFAULT_OPTIONS ]

\* a Debouncer that is used directly: add, remove, cancel and flush are called
\* on it, and its callback is the one a watcher gives it, flushEvents, with one
\* handler for the 'all' event that notes the items it is called with
MaxOpsDebounce == 4

DebounceInputs ==
  [ maxOps |-> MaxOpsDebounce,
    options |-> DEFAULT_OPTIONS,
    keys |-> { <<"/", "a">>, <<"/", "b">> },
    items |-> { "add", "change" } ]

Debouncers ==
  << on(VFSWatcher(<<"/">>, [debounce |-> Debounce, ignoreInitial |-> TRUE,
                             depth |-> <<>>]),
        "all", "note") >>

\* the objects of the live tree and of the snapshots are told apart while the
\* tree is changed, snapshots are taken and restored, and reset is called
MaxOpsNodes == 4

MaxSnapshotsNodes == 2

NodesInputs ==
  [ maxOps |-> MaxOpsNodes,
    paths |-> { <<"/", "d", "/", "g">>, <<"/", "d">>, <<"/">> },
    pairs |-> { << <<"/", "d", "/", "g">>, <<"/", "e">> >> },
    contents |-> { <<1>> },
    suffixes |-> { <<>> },
    targets |-> { <<"/", "d">> },
    options |-> [DEFAULT_OPTIONS EXCEPT !.maxSymlinkDepth = LinkDepth] ]

InputsOf(pr) ==
  CASE pr = "paths" -> PathsInputs
    [] pr = "snap" -> SnapInputs
    [] pr = "links" -> LinksInputs
    [] pr = "async" -> AsyncInputs
    [] pr = "glob" -> GlobInputs
    [] pr = "normalize" -> NormalizeInputs
    [] pr = "watch" -> WatchInputs
    [] pr = "resolve" -> ResolveInputs
    [] pr = "buffers" -> BufferInputs
    [] pr = "debounce" -> DebounceInputs
    [] pr = "nodes" -> NodesInputs

Inputs == InputsOf(profile)

\* the bound on the number of calls of a run
CanCall == nops < Inputs.maxOps

\* the number of createSnapshot calls that are made
SnapshotBound == IF profile = "nodes" THEN MaxSnapshotsNodes ELSE MaxSnapshots

Profiles == {"paths", "snap", "links"}

\* the state a constructor leaves: new VirtualFileSystem(options)
InitOf(pr) ==
  /\ profile = pr
  /\ options = InputsOf(pr).options
  /\ tree = [q \in {<<>>} |->
               [VFSDirectory(InputsOf(pr).options.defaultDirectoryMode, 0)
                  EXCEPT !.id = IF pr = "nodes" THEN 1 ELSE 0]]
  /\ snapshots = <<>>
  /\ snapshotCounter = 0
  /\ now = 0
  /\ last = [op |-> "new", args |-> <<>>, err |-> OK, ret |-> <<>>,
             changed |-> FALSE, events |-> <<>>]
  /\ nops = 0
  /\ captured = <<>>
  /\ calls = <<>>
  /\ watchers = IF pr = "debounce" THEN Debouncers ELSE <<>>
  /\ caller = [ids |-> {},
               buffers |-> IF pr = "buffers" THEN BufferInputs.buffers ELSE <<>>]

Init == \E pr \in Profiles : InitOf(pr)

\* the record of a call that left the live tree as t; changed tells whether the
\* names, kinds, contents or targets of the live tree differ from before the call
Call(op, args, err, ret, t) ==
  [op |-> op, args |-> args, err |-> err, ret |-> ret,
   changed |-> structure(t) # structure(tree), events |-> <<>>]

\* a call that leaves the snapshot store alone, with its result r
Step(op, args, r, ret) ==
  /\ tree' = r.t
  /\ last' = [Call(op, args, r.err, ret, r.t) EXCEPT !.events = r.events]
  /\ nops' = nops + 1
  /\ watchers' = notifyAll(watchers, r.events)
  /\ UNCHANGED <<snapshots, snapshotCounter, options, now, profile, captured, calls, caller>>

\* the same for a call that returns a value
StepReturning(op, args, r) == Step(op, args, r, r.ret)

ReadFile ==
  /\ CanCall
  /\ \E p \in Inputs.paths :
    StepReturning("readFile", <<p>>, readFile(tree, p, cx))

WriteFile ==
  /\ CanCall
  /\ \E p \in Inputs.paths, c \in Inputs.contents, sfx \in Inputs.suffixes :
    Step("writeFile", <<p, c, sfx>>, writeFile(tree, p, c, sfx, cx), <<>>)

AppendFile ==
  /\ CanCall
  /\ \E p \in Inputs.paths, c \in Inputs.contents :
    Step("appendFile", <<p, c>>, appendFile(tree, p, c, cx), <<>>)

DeleteFile ==
  /\ CanCall
  /\ \E p \in Inputs.paths :
    Step("deleteFile", <<p>>, deleteFile(tree, p, cx), <<>>)

CreateDirectory ==
  /\ CanCall
  /\ \E p \in Inputs.paths, recursive \in BOOLEAN :
    Step("createDirectory", <<p, recursive>>, createDirectory(tree, p, recursive, cx), <<>>)

ReadDirectory ==
  /\ CanCall
  /\ \E p \in Inputs.queries :
    StepReturning("readDirectory", <<p>>, readDirectory(tree, p, cx))

DeleteDirectory ==
  /\ CanCall
  /\ \E p \in Inputs.paths, recursive \in BOOLEAN :
    Step("deleteDirectory", <<p, recursive>>, deleteDirectory(tree, p, recursive, cx), <<>>)

Exists ==
  /\ CanCall
  /\ \E p \in Inputs.queries :
    StepReturning("exists", <<p>>, exists(tree, p, cx))

GetStats ==
  /\ CanCall
  /\ \E p \in Inputs.queries :
    StepReturning("getStats", <<p>>, getStats(tree, p, cx))

GetLinkStats ==
  /\ CanCall
  /\ \E p \in Inputs.queries :
    StepReturning("getLinkStats", <<p>>, getLinkStats(tree, p, cx))

IsFile ==
  /\ CanCall
  /\ \E p \in Inputs.queries :
    StepReturning("isFile", <<p>>, isFile(tree, p, cx))

IsDirectory ==
  /\ CanCall
  /\ \E p \in Inputs.queries :
    StepReturning("isDirectory", <<p>>, isDirectory(tree, p, cx))

IsSymlink ==
  /\ CanCall
  /\ \E p \in Inputs.queries :
    StepReturning("isSymlink", <<p>>, isSymlink(tree, p, cx))

CopyFile ==
  /\ CanCall
  /\ \E pair \in Inputs.pairs :
    Step("copyFile", <<pair[1], pair[2]>>, copyFile(tree, pair[1], pair[2], cx), <<>>)

MoveFile ==
  /\ CanCall
  /\ \E pair \in Inputs.pairs :
    Step("moveFile", <<pair[1], pair[2]>>, moveFile(tree, pair[1], pair[2], cx), <<>>)

CreateSymlink ==
  /\ CanCall
  /\ \E target \in Inputs.targets, p \in Inputs.paths :
    Step("createSymlink", <<p, target>>, createSymlink(tree, target, p, cx), <<>>)

ReadSymlink ==
  /\ CanCall
  /\ \E p \in Inputs.queries :
    StepReturning("readSymlink", <<p>>, readSymlink(tree, p, cx))

CreateSnapshot ==
  /\ CanCall
  /\ snapshotCounter < SnapshotBound
  /\ LET r == createSnapshot(tree, snapshots, snapshotCounter, cx)
     IN  /\ tree' = r.t
         /\ snapshots' = r.snapshots
         /\ snapshotCounter' = r.snapshotCounter
         /\ captured' = [i \in DOMAIN captured \cup {r.ret} |->
                           IF i = r.ret THEN structure(tree) ELSE captured[i]]
         /\ last' = Call("createSnapshot", <<>>, r.err, r.ret, r.t)
         /\ caller' = [caller EXCEPT !.ids = @ \cup {r.ret}]
  /\ nops' = nops + 1
  /\ UNCHANGED <<options, now, profile, calls, watchers>>

RestoreSnapshot ==
  /\ CanCall
  /\ \E id \in 1..SnapshotBound :
    Step("restoreSnapshot", <<id>>, restoreSnapshot(tree, snapshots, id, cx), <<>>)

DeleteSnapshot ==
  /\ CanCall
  /\ \E id \in 1..SnapshotBound :
       /\ snapshots' = [i \in DOMAIN snapshots \ {id} |-> snapshots[i]]
       /\ captured' = [i \in DOMAIN captured \ {id} |-> captured[i]]
       /\ last' = Call("deleteSnapshot", <<id>>, OK, id \in DOMAIN snapshots, tree)
  /\ nops' = nops + 1
  /\ UNCHANGED <<tree, snapshotCounter, options, now, profile, calls, caller, watchers>>

Diff ==
  /\ CanCall
  /\ \E fromId \in 0..MaxSnapshots, toId \in 0..MaxSnapshots :
       LET r == diff(tree, snapshots, fromId, toId, cx)
       IN  /\ tree' = r.t
           /\ snapshots' = r.snapshots
           /\ last' = Call("diff", <<fromId, toId>>, r.err, r.ret, r.t)
  /\ nops' = nops + 1
  /\ UNCHANGED <<snapshotCounter, options, now, profile, captured, calls, caller, watchers>>

Reset ==
  /\ CanCall
  /\ tree' = reset(tree, cx)
  /\ snapshots' = <<>>
  /\ snapshotCounter' = 0
  /\ captured' = <<>>
  /\ last' = Call("reset", <<>>, OK, <<>>, reset(tree, cx))
  /\ nops' = nops + 1
  /\ UNCHANGED <<options, now, profile, calls, caller, watchers>>

\* time passes between two calls
Tick ==
  /\ now < MaxTime
  /\ nops \in Inputs.ticks
  /\ now' = now + 1
  /\ UNCHANGED <<tree, snapshots, snapshotCounter, options, last, nops, profile,
                 captured, calls, caller, watchers>>

Next ==
  \/ ReadFile \/ WriteFile \/ AppendFile \/ DeleteFile
  \/ CreateDirectory \/ ReadDirectory \/ DeleteDirectory
  \/ Exists \/ GetStats \/ GetLinkStats \/ IsFile \/ IsDirectory \/ IsSymlink
  \/ CopyFile \/ MoveFile \/ CreateSymlink \/ ReadSymlink
  \/ CreateSnapshot \/ RestoreSnapshot \/ DeleteSnapshot \/ Diff \/ Reset
  \/ Tick

Spec == Init /\ [][Next]_vars

Glob ==
  /\ CanCall
  /\ \E pattern \in Inputs.patterns, o \in Inputs.globOptions,
        order \in {"insertion", "reverse"} :
    StepReturning("glob", <<pattern, o, order>>, glob(tree, pattern, o, order, cx))

\* the calls of the glob family
NextGlob == WriteFile \/ CreateSymlink \/ Glob

SpecGlob == InitOf("glob") /\ [][NextGlob]_vars

\* a call of the exported function normalizePath, which leaves the file system alone
NormalizePath ==
  /\ CanCall
  /\ \E inputPath \in Inputs.strings :
       last' = [op |-> "normalizePath", args |-> <<inputPath>>, err |-> OK,
                ret |-> normalizePath(inputPath), changed |-> FALSE, events |-> <<>>]
  /\ nops' = nops + 1
  /\ UNCHANGED <<tree, snapshots, snapshotCounter, options, now, profile, captured,
                 calls, caller, watchers>>

NextNormalize == NormalizePath

SpecNormalize == InitOf("normalize") /\ [][NextNormalize]_vars

\* vfs.watch(watchPath, options)
Watch ==
  /\ CanCall
  /\ Len(watchers) < MaxWatchers
  /\ \E watchPath \in Inputs.watchPaths, o \in Inputs.watchOptions :
       /\ tree' = watchedTree(tree, watchPath, o, cx)
       /\ watchers' = Append(watchers, watcherOf(tree, watchPath, o, cx))
       /\ last' = Call("watch", <<watchPath, o>>, OK, <<>>, tree)
  /\ nops' = nops + 1
  /\ UNCHANGED <<snapshots, snapshotCounter, options, now, profile, captured, calls, caller>>

\* watcher.on(event, handler)
On ==
  /\ CanCall
  /\ \E i \in DOMAIN watchers, l \in Inputs.listeners :
       /\ watchers' = [watchers EXCEPT ![i] = on(@, l.event, l.handler)]
       /\ last' = Call("on", <<i, l.event, l.handler>>, OK, <<>>, tree)
  /\ nops' = nops + 1
  /\ UNCHANGED <<tree, snapshots, snapshotCounter, options, now, profile, captured,
                 calls, caller>>

\* watcher.close()
Close ==
  /\ CanCall
  /\ \E i \in DOMAIN watchers :
       /\ watchers' = [watchers EXCEPT ![i] = close(@)]
       /\ last' = Call("close", <<i>>, OK, <<>>, tree)
  /\ nops' = nops + 1
  /\ UNCHANGED <<tree, snapshots, snapshotCounter, options, now, profile, captured,
                 calls, caller>>

\* a timer is due when it has no time left; the timer of emitReady has delay 0
due(w) == w.ready \/ w.timer = <<0>>

\* one unit of time passes while a timer is armed and none is due
Elapse ==
  /\ \E i \in DOMAIN watchers : watchers[i].timer # <<>>
  /\ \A i \in DOMAIN watchers : ~due(watchers[i])
  /\ watchers' = [i \in DOMAIN watchers |-> elapsed(watchers[i])]
  /\ UNCHANGED <<tree, snapshots, snapshotCounter, options, now, last, nops, profile,
                 captured, calls, caller>>

\* the timer of a debouncer runs its callback, flush
Fire ==
  /\ \E i \in DOMAIN watchers :
       /\ watchers[i].timer = <<0>>
       /\ watchers' = [watchers EXCEPT ![i] = flush(@)]
  /\ UNCHANGED <<tree, snapshots, snapshotCounter, options, now, last, nops, profile,
                 captured, calls, caller>>

\* the timer that watch() set runs its callback, emitReady
Ready ==
  /\ \E i \in DOMAIN watchers :
       /\ watchers[i].ready
       /\ watchers' = [watchers EXCEPT ![i] = emitReady(@)]
  /\ UNCHANGED <<tree, snapshots, snapshotCounter, options, now, last, nops, profile,
                 captured, calls, caller>>

NextWatch ==
  \/ WriteFile \/ DeleteFile \/ DeleteDirectory
  \/ Watch \/ On \/ Close \/ Elapse \/ Fire \/ Ready

SpecWatch == InitOf("watch") /\ [][NextWatch]_vars

\* a timer that is due runs, and time passes while a timer waits
FairSpecWatch ==
  SpecWatch /\ WF_vars(Elapse) /\ WF_vars(Fire) /\ WF_vars(Ready)

\* a call of a method of Debouncer i that leaves it as w
Debounced(op, args, i, w) ==
  /\ watchers' = [watchers EXCEPT ![i] = w]
  /\ last' = Call(op, args, OK, <<>>, tree)
  /\ nops' = nops + 1
  /\ UNCHANGED <<tree, snapshots, snapshotCounter, options, now, profile, captured,
                 calls, caller>>

\* debouncer.add(key, item)
Add ==
  /\ CanCall
  /\ \E i \in DOMAIN watchers, key \in Inputs.keys, type \in Inputs.items :
       Debounced("add", <<i, key, type>>, i,
                 add(watchers[i], key, [type |-> type, path |-> key]))

\* debouncer.remove(key)
Remove ==
  /\ CanCall
  /\ \E i \in DOMAIN watchers, key \in Inputs.keys :
       Debounced("remove", <<i, key>>, i, remove(watchers[i], key))

\* debouncer.cancel()
Cancel ==
  /\ CanCall
  /\ \E i \in DOMAIN watchers :
       Debounced("cancel", <<i>>, i, cancel(watchers[i]))

\* debouncer.flush() called by the owner
Flush ==
  /\ CanCall
  /\ \E i \in DOMAIN watchers :
       Debounced("flush", <<i>>, i, flush(watchers[i]))

NextNodes ==
  \/ WriteFile \/ DeleteFile \/ CreateDirectory \/ DeleteDirectory
  \/ CopyFile \/ MoveFile \/ CreateSymlink
  \/ CreateSnapshot \/ RestoreSnapshot \/ DeleteSnapshot \/ Reset

SpecNodes == InitOf("nodes") /\ [][NextNodes]_vars

NextDebounce == Add \/ Remove \/ Cancel \/ Flush \/ Elapse \/ Fire

SpecDebounce == InitOf("debounce") /\ [][NextDebounce]_vars

\* a timer that is due runs, and time passes while a timer waits
FairSpecDebounce == SpecDebounce /\ WF_vars(Elapse) /\ WF_vars(Fire)

\* symlinks are made over files and over one another, then paths are read
\* writeFile(p, buffer) with a Buffer the caller holds
WriteBuffer ==
  /\ CanCall
  /\ \E p \in Inputs.paths, b \in DOMAIN caller.buffers :
    Step("writeFile", <<p, caller.buffers[b], b>>,
         writeFile(tree, p, caller.buffers[b], <<>>, [cx EXCEPT !.buffer = <<b>>]),
         <<>>)

\* appendFile(p, buffer) with a Buffer the caller holds
AppendBuffer ==
  /\ CanCall
  /\ \E p \in Inputs.paths, b \in DOMAIN caller.buffers :
    Step("appendFile", <<p, caller.buffers[b], b>>,
         appendFile(tree, p, caller.buffers[b], [cx EXCEPT !.buffer = <<b>>]),
         <<>>)

\* readFile(p) without an encoding: the caller keeps the Buffer that is returned
ReadBuffer ==
  /\ CanCall
  /\ \E p \in Inputs.paths :
    LET r == readFile(tree, p, cx)
    IN  /\ tree' = r.t
        /\ last' = [Call("readFile", <<p>>, r.err, r.ret, r.t) EXCEPT !.events = r.events]
        /\ nops' = nops + 1
        /\ watchers' = notifyAll(watchers, r.events)
        /\ caller' = IF r.err = OK /\ Len(caller.buffers) < MaxBuffers
                       THEN [caller EXCEPT !.buffers = Append(@, r.ret)]
                       ELSE caller
        /\ UNCHANGED <<snapshots, snapshotCounter, options, now, profile, captured, calls>>

\* the bytes of the files whose content is the caller's Buffer b, after the
\* caller wrote bytes into that Buffer: no method of the file is called, so no
\* timestamp moves
written(t, b, data) ==
  [q \in DOMAIN t |->
     IF t[q].buffer = <<b>> THEN [t[q] EXCEPT !.content = data] ELSE t[q]]

\* the caller writes other bytes into a Buffer it holds (a Buffer keeps its length)
Mutate ==
  /\ CanCall
  /\ \E b \in DOMAIN caller.buffers, data \in Inputs.contents :
    /\ data # caller.buffers[b]
    /\ Len(data) = Len(caller.buffers[b])
    /\ caller' = [caller EXCEPT !.buffers[b] = data]
    /\ tree' = written(tree, b, data)
    /\ last' = Call("mutate", <<b, data>>, OK, <<>>, written(tree, b, data))
    /\ nops' = nops + 1
    /\ UNCHANGED <<snapshots, snapshotCounter, options, now, profile, captured,
                   calls, watchers>>

NextBuffers == WriteBuffer \/ AppendBuffer \/ ReadBuffer \/ Mutate

SpecBuffers == InitOf("buffers") /\ [][NextBuffers]_vars

NextResolve == WriteFile \/ CreateSymlink \/ ReadFile

SpecResolve == InitOf("resolve") /\ [][NextResolve]_vars

SpecPaths == InitOf("paths") /\ [][Next]_vars

SpecSnap == InitOf("snap") /\ [][Next]_vars

SpecLinks == InitOf("links") /\ [][Next]_vars

(***************************************************************************)
(* Calls in flight.  An async method runs until its first await when it is *)
(* called, and from one await to the next each time the event loop resumes *)
(* it; between two such steps the steps of other calls can run.  A method  *)
(* without an await of its own (createDirectory, deleteFile, readFile,     *)
(* exists) runs whole when it is called.                                   *)
(***************************************************************************)
MaxCalls == 3

AsyncCalls ==
  { [op |-> "writeFile", args |-> << <<"/", "m", "/", "f">>, <<1>> >>],
    [op |-> "writeFile", args |-> << <<"/", "m", "/", "g">>, <<2>> >>],
    [op |-> "createDirectory", args |-> << <<"/", "m", "/", "d">>, TRUE >>],
    [op |-> "createDirectory", args |-> << <<"/", "m", "/", "e">>, FALSE >>],
    [op |-> "deleteFile", args |-> << <<"/", "m", "/", "f">> >>],
    [op |-> "deleteFile", args |-> << <<"/", "m", "/", "g">> >>],
    [op |-> "moveFile", args |-> << <<"/", "m", "/", "f">>, <<"/", "m", "/", "h">> >>],
    [op |-> "exists", args |-> << <<"/", "m", "/", "h">> >>],
    [op |-> "writeFile", args |-> << <<"/", "m", "/", "f", "/", "x">>, <<2>> >>],
    [op |-> "writeFile", args |-> << <<"/", "m", "/", "f">>, <<2>> >>],
    [op |-> "writeFile", args |-> << <<"/", "m", "/", "f">>, <<3>>, tmp >>] }

\* the tempSuffix option of a writeFile call, '' when it was not given
suffixOf(args) == IF Len(args) > 2 THEN args[3] ELSE <<>>

\* a moveFile that removes the source before it writes the copy
moveFileRemovingFirst(srcPath, destPath) ==
  << [k |-> "readFile", path |-> srcPath],
     [k |-> "deleteFile", path |-> srcPath],
     [k |-> "writeFileAwaiting", path |-> destPath],
     [k |-> "writeFileResumed", path |-> destPath] >>

\* the steps of moveFile: copyFile reads the source and awaits; its writeFile
\* runs up to the await of createDirectory; writeFileInternal finishes; then,
\* after the awaits have returned, deleteFile
moveFileSteps(srcPath, destPath) ==
  << [k |-> "readFile", path |-> srcPath],
     [k |-> "writeFileAwaiting", path |-> destPath],
     [k |-> "writeFileResumed", path |-> destPath],
     [k |-> "deleteFile", path |-> srcPath] >>

\* the steps of writeFile with a tempSuffix: writeFileInternal of the temporary
\* path, then moveFile from it
writeFileViaSteps(tempPath, filePath) ==
  << [k |-> "writeFileAwaiting", path |-> tempPath],
     [k |-> "writeFileResumed", path |-> tempPath] >>
  \o moveFileSteps(tempPath, filePath)

\* the steps of a call
stepsOf(op, args) ==
  CASE op = "writeFile" /\ suffixOf(args) # <<>> ->
         writeFileViaSteps(args[1] \o suffixOf(args), args[1])
    [] op = "writeFile" /\ suffixOf(args) = <<>> ->
         << [k |-> "writeFileAwaiting", path |-> args[1]],
            [k |-> "writeFileResumed", path |-> args[1]] >>
    [] op = "moveFile" -> moveFileSteps(args[1], args[2])
    [] OTHER -> << [k |-> op, path |-> args[1]] >>

\* one step of a call on the tree t: the tree it leaves, the error it throws,
\* the content the call holds afterwards and the value it has to return
runStep(t, call, step, cx_) ==
  CASE step.k = "readFile" ->
         [t |-> readFile(t, step.path, cx_).t,
          err |-> readFile(t, step.path, cx_).err,
          content |-> readFile(t, step.path, cx_).ret, ret |-> call.ret]
    [] step.k = "writeFileAwaiting" ->
         [t |-> writeFileAwaiting(t, resolvePath(step.path), cx_).t,
          err |-> writeFileAwaiting(t, resolvePath(step.path), cx_).err,
          content |-> call.content, ret |-> call.ret]
    [] step.k = "writeFileResumed" ->
         [t |-> writeFileResumed(t, step.path, call.content, cx_).t,
          err |-> writeFileResumed(t, step.path, call.content, cx_).err,
          content |-> call.content, ret |-> call.ret]
    [] step.k = "deleteFile" ->
         [t |-> deleteFile(t, step.path, cx_).t,
          err |-> deleteFile(t, step.path, cx_).err,
          content |-> call.content, ret |-> call.ret]
    [] step.k = "createDirectory" ->
         [t |-> createDirectory(t, step.path, call.args[2], cx_).t,
          err |-> createDirectory(t, step.path, call.args[2], cx_).err,
          content |-> call.content, ret |-> call.ret]
    [] step.k = "exists" ->
         [t |-> exists(t, step.path, cx_).t,
          err |-> OK,
          content |-> call.content, ret |-> exists(t, step.path, cx_).ret]

\* a call as it is made: nothing run yet; before is the set of the calls that
\* had returned by then
newCall(op, args, before) ==
  [op |-> op, args |-> args, todo |-> stepsOf(op, args),
   content |-> IF op = "writeFile" THEN args[2] ELSE <<>>,
   err |-> OK, ret |-> <<>>, before |-> before, sawBoth |-> FALSE]

\* source and destination of a moveFile both exist in tree t
bothExist(t, call, cx_) ==
  /\ call.op = "moveFile"
  /\ exists(t, call.args[1], cx_).ret
  /\ exists(t, call.args[2], cx_).ret

\* the call after its next step has left result r; a throw ends the call.
\* sawBoth records that a moveFile has left, at one of its awaits, a tree in
\* which source and destination both exist
advanced(call, r, cx_) ==
  [call EXCEPT !.todo = IF r.err # OK THEN <<>> ELSE Tail(@),
               !.err = r.err,
               !.content = r.content,
               !.ret = r.ret,
               !.sawBoth = @ \/ (r.err = OK /\ Len(call.todo) > 1
                                 /\ bothExist(r.t, call, cx_))]

returned(cs) == {i \in DOMAIN cs : cs[i].todo = <<>>}

\* a call is made: it runs up to its first await
Begin ==
  /\ Len(calls) < MaxCalls
  /\ \E c \in AsyncCalls :
       LET call == newCall(c.op, c.args, returned(calls))
           r == runStep(tree, call, Head(call.todo), cx)
       IN  /\ tree' = r.t
           /\ calls' = Append(calls, advanced(call, r, cx))
  /\ UNCHANGED <<snapshots, snapshotCounter, options, now, last, nops, profile,
                 captured, caller, watchers>>

\* the event loop resumes a call at its await: it runs up to its next await
Resume ==
  /\ \E i \in DOMAIN calls :
       /\ calls[i].todo # <<>>
       /\ LET r == runStep(tree, calls[i], Head(calls[i].todo), cx)
           IN  /\ tree' = r.t
               /\ calls' = [calls EXCEPT ![i] = advanced(calls[i], r, cx)]
  /\ UNCHANGED <<snapshots, snapshotCounter, options, now, last, nops, profile,
                 captured, caller, watchers>>

NextAsync == Begin \/ Resume

SpecAsync == InitOf("async") /\ [][NextAsync]_vars

(***************************************************************************)
(* Vocabulary of the properties                                            *)
(***************************************************************************)
\* the absolute path string of the node at real path q
pathString(q) == <<"/">> \o joinWith(q, <<"/">>)

\* the proper ancestors of a path below the root, by repeated dirname
RECURSIVE properAncestors(_)
properAncestors(p) ==
  LET d == dirname(p)
  IN  IF d = ROOT \/ d = DOT \/ d = p THEN {} ELSE {d} \cup properAncestors(d)

\* a writeFile call without the tempSuffix option
PlainWrite(call) == call.op = "writeFile" /\ call.args[3] = <<>>

\* the operations of the interface that change the tree
MutatingOps ==
  { "writeFile", "appendFile", "deleteFile", "createDirectory", "deleteDirectory",
    "copyFile", "moveFile", "createSymlink" }

\* the path arguments of a call of a mutating operation
pathArgs(call) ==
  IF call.op \in {"copyFile", "moveFile"}
  THEN {call.args[1], call.args[2]}
  ELSE {call.args[1]}

symlinksOf(t) == {q \in DOMAIN t : t[q].kind = "symlink"}

\* where the symlink at real path q points: an absolute target from the root, a
\* relative one from the directory that contains the symlink
pointsTo(t, q) ==
  LET target == t[q].target
      container == pathString(SubSeq(q, 1, Len(q) - 1))
  IN  IF startsWith(target, <<"/">>)
      THEN splitPath(target)
      ELSE splitPath(join(<<container, target>>))

\* the node reached from the symlink at q after n hops along symlinks
RECURSIVE hop(_, _, _)
hop(t, q, n) ==
  IF n = 0 THEN q
  ELSE IF q \in symlinksOf(t) THEN hop(t, pointsTo(t, q), n - 1)
  ELSE <<>>

\* the symlinks that lie on a cycle of symlink targets
onCycle(t) ==
  {q \in symlinksOf(t) : \E n \in 1..Cardinality(symlinksOf(t)) : hop(t, q, n) = q}

filesOf(s) == {q \in DOMAIN s : s[q].kind = "file"}

\* the records diff owes for the change from structure s to structure u
owedDiff(s, u) ==
  { [type |-> "added", path |-> pathString(q), oldContent |-> <<>>,
     newContent |-> u[q].content] : q \in filesOf(u) \ filesOf(s) }
  \cup
  { [type |-> "deleted", path |-> pathString(q), oldContent |-> s[q].content,
     newContent |-> <<>>] : q \in filesOf(s) \ filesOf(u) }
  \cup
  { [type |-> "modified", path |-> pathString(q), oldContent |-> s[q].content,
     newContent |-> u[q].content] :
       q \in {x \in filesOf(s) \cap filesOf(u) : s[x].content # u[x].content} }

(***************************************************************************)
(* Properties                                                              *)
(***************************************************************************)
\* C1: when writeFile(p, c) has succeeded, a readFile(p) called right after it
\* succeeds and returns exactly c
C1_WriteThenRead ==
  (PlainWrite(last) /\ last.err = OK)
    => LET r == readFile(tree, last.args[1], cx)
       IN  r.err = OK /\ r.ret = last.args[2]

\* C2: when restoreSnapshot(id) has succeeded, the live tree has the names, node
\* kinds, file contents and symlink targets it had when createSnapshot returned id
C2_RestoreGivesCaptured ==
  (last.op = "restoreSnapshot" /\ last.err = OK)
    => structure(tree) = captured[last.args[1]]

\* a restore that undid changes made after a snapshot that held a file
C2_Witness ==
  /\ last.op = "restoreSnapshot" /\ last.err = OK /\ last.changed
  /\ filesOf(captured[last.args[1]]) # {}

\* C3: no step other than deleteSnapshot and reset changes a stored snapshot: its
\* structure, contents and metadata, the accessed times included, stay as stored
C3_StoredSnapshotNeverChanges ==
  [][\A id \in DOMAIN snapshots \cap DOMAIN snapshots' :
       snapshots'[id] = snapshots[id]]_vars

\* C4: diff(S) against the live tree holds exactly one record for each file added,
\* deleted or modified since createSnapshot returned S, and no other record
C4_DiffIsExact ==
  (last.op = "diff" /\ last.err = OK /\ last.args[1] # 0 /\ last.args[2] = 0)
    => /\ {last.ret[k] : k \in 1..Len(last.ret)}
            = owedDiff(captured[last.args[1]], structure(tree))
       /\ Len(last.ret) = Cardinality({last.ret[k] : k \in 1..Len(last.ret)})

\* C5: readFile of a symlink that lies on a cycle of symlink targets raises
\* SymlinkLoop
C5_CycleRaisesSymlinkLoop ==
  \A q \in onCycle(tree) : readFile(tree, pathString(q), cx).err = "SYMLINK_LOOP"

\* C6: following a symlink whose target names a file or a directory of the tree,
\* relative targets taken from the directory containing the symlink, reaches
\* that node
C6_TargetResolvesFromContainer ==
  \A q \in symlinksOf(tree) :
    LET dest == pointsTo(tree, q)
    IN  (dest \in DOMAIN tree /\ tree[dest].kind # "symlink")
          => LET r == resolveNode(tree, pathString(q), TRUE, 0, cx)
             IN  r.err = OK /\ r.found /\ r.path = dest

\* C7: a mutating operation called with a path that fails validation raises
\* InvalidPath and leaves the live tree as it was
C7_InvalidPathLeavesTree ==
  (last.op \in MutatingOps /\ \E p \in pathArgs(last) : ~validatePath(p))
    => (last.err = "INVALID_PATH" /\ ~last.changed)

\* C8: a call that fails leaves the live tree as it was
C8_FailureLeavesTree == (last.err # OK) => ~last.changed

\* C9: a call that fails, fails with one of the kinds of the taxonomy
C9_FailureIsOfTheTaxonomy == last.err \in FileSystemErrorCode \cup {OK}

\* C10: when writeFile(p, c) succeeds on a tree where no proper ancestor of p
\* existed, isDirectory is true of every proper ancestor of p and readFile(p)
\* returns c
C10_WriteCreatesAncestors ==
  [][(/\ last'.op = "writeFile" /\ last'.err = OK /\ nops' = nops + 1
      /\ properAncestors(last'.args[1]) # {}
      /\ \A a \in properAncestors(last'.args[1]) : ~exists(tree, a, cx).ret)
     => (/\ \A a \in properAncestors(last'.args[1]) :
              isDirectory(tree', a, cx).ret = TRUE
         /\ LET r == readFile(tree', last'.args[1], cx)
            IN  r.err = OK /\ r.ret = last'.args[2])]_vars

\* a first write, to a path two directories deep
C10_Witness ==
  /\ last.op = "writeFile" /\ last.err = OK /\ nops = 1
  /\ Cardinality(properAncestors(last.args[1])) = 2
  /\ DOMAIN tree = {<<>>, << <<"a">> >>, << <<"a">>, <<"b">> >>,
                    << <<"a">>, <<"b">>, <<"c">> >>}

\* whether path p names a directory itself (a symlink to one does not count)
namesDirectory(t, p, cx_) ==
  LET r == resolveNode(t, p, FALSE, 0, cx_)
  IN  r.err = OK /\ r.found /\ t[r.path].kind = "directory"

\* the real path of the node that path p names
realPathOf(t, p, cx_) == resolveNode(t, p, FALSE, 0, cx_).path

\* the real paths at and below q
subtreeOf(t, q) == {r \in DOMAIN t : isPrefix(q, r)}

\* C11: a deleteDirectory(p) without recursive raises DirectoryNotEmpty exactly
\* when p is a directory with at least one child, and then the tree is unchanged;
\* without recursive an empty directory is removed; with recursive a directory
\* is removed together with everything below it.
C11_DeleteDirectory ==
  [][(last'.op = "deleteDirectory" /\ nops' = nops + 1) =>
       LET p == last'.args[1]
           recursive == last'.args[2]
           isDir == namesDirectory(tree, p, cx)
           q == realPathOf(tree, p, cx)
       IN  /\ ~recursive =>
                /\ (last'.err = "DIRECTORY_NOT_EMPTY")
                     <=> (isDir /\ childrenOf(tree, q) # {})
                /\ (last'.err = "DIRECTORY_NOT_EMPTY") => ~last'.changed
                /\ (isDir /\ childrenOf(tree, q) = {})
                     => (last'.err = OK /\ q \notin DOMAIN tree')
           /\ (recursive /\ isDir)
                => (last'.err = OK /\ subtreeOf(tree', q) = {})]_vars

\* the path strings of the prefixes of path p: "/s1", "/s1/s2", ...
prefixPaths(p) ==
  LET segments == splitPath(p)
  IN  [k \in 1..Len(segments) |-> pathString(SubSeq(segments, 1, k))]

\* the prefix of p ending at segment k exists, and is not a directory
\* (nor a symlink that leads to one)
existsAsNonDirectory(t, p, k, cx_) ==
  /\ exists(t, prefixPaths(p)[k], cx_).ret
  /\ ~isDirectory(t, prefixPaths(p)[k], cx_).ret

firstNonDirectory(t, p, cx_) ==
  CHOOSE k \in 1..Len(prefixPaths(p)) :
    /\ existsAsNonDirectory(t, p, k, cx_)
    /\ \A j \in 1..(k - 1) : ~existsAsNonDirectory(t, p, j, cx_)

\* what createDirectory owes for a segment that exists as a non-directory:
\* SymlinkLoop when following it exceeds the symlink depth, NotADirectory otherwise
owedForNonDirectory(t, p, cx_) ==
  IF resolveNode(t, prefixPaths(p)[firstNonDirectory(t, p, cx_)], TRUE, 0, cx_).err
       = "SYMLINK_LOOP"
  THEN "SYMLINK_LOOP"
  ELSE "NOT_A_DIRECTORY"

sameNode(t, a, b, cx_) ==
  LET ra == resolveNode(t, a, TRUE, 0, cx_)
      rb == resolveNode(t, b, TRUE, 0, cx_)
  IN  /\ ra.err = OK /\ ra.found
      /\ rb.err = OK /\ rb.found
      /\ ra.path = rb.path

\* C13: when moveFile(src, dest) has succeeded, dest reads as what src held
\* before the call, also when src and dest denote the same file; and when they
\* denote different files, src no longer exists.
C13_MoveKeepsContent ==
  [][(last'.op = "moveFile" /\ last'.err = OK /\ nops' = nops + 1) =>
       LET src == last'.args[1]
           dest == last'.args[2]
           held == readFile(tree, src, cx)
           after == readFile(tree', dest, cx)
       IN  /\ after.err = OK
           /\ after.ret = held.ret
           /\ ~sameNode(tree, src, dest, cx) => ~exists(tree', src, cx).ret]_vars

\* the notifications of the given types among those a call made, as a set
eventsOfType(call, types) ==
  {call.events[k] : k \in {j \in 1..Len(call.events) : call.events[j].type \in types}}

\* some notification of the set names the node at real path q
namedIn(es, q) == \E e \in es : validatePath(e.path) /\ splitPath(e.path) = q

\* the real paths at which u holds a node of the given kind that s does not hold
\* as it is in u (absent from s, or there with another kind, content or target)
committed(s, u, kind) ==
  {q \in DOMAIN u : u[q].kind = kind /\ (q \notin DOMAIN s \/ s[q] # u[q])}

\* C16: every file created or changed, every directory or symlink created and
\* every node removed by a call of a mutating operation is matched by a
\* notification the call made before it returned: file-changed for a file or a
\* symlink, directory-added for a directory, removed for a removal.
C16_MutationIsNotified ==
  [][(last'.op \in MutatingOps /\ nops' = nops + 1) =>
       LET s == structure(tree)
           u == structure(tree')
       IN  /\ \A q \in committed(s, u, "file") \cup committed(s, u, "symlink") :
                namedIn(eventsOfType(last', {"change", "add"}), q)
           /\ \A q \in committed(s, u, "directory") :
                namedIn(eventsOfType(last', {"addDir"}), q)
           /\ \A q \in DOMAIN s \ DOMAIN u :
                namedIn(eventsOfType(last', {"unlink", "unlinkDir"}), q)]_vars

\* the segments of the path a call targets
callPath(c) == splitPath(c.args[1])

\* calls a and b were in flight together: neither had returned when the other was made
overlap(cs, a, b) ==
  /\ a # b
  /\ a < b => a \notin cs[b].before
  /\ b < a => b \notin cs[a].before

allReturned == calls # <<>> /\ \A i \in DOMAIN calls : calls[i].todo = <<>>

\* the moveFile call i ran with nothing but observers in flight beside it
onlyObserved(cs, i) ==
  \A j \in DOMAIN cs : overlap(cs, i, j) => cs[j].op = "exists"

\* C14: moveFile is not atomic.  Every moveFile that succeeds with only observers
\* in flight beside it has left, at an await before its deleteFile, a tree in
\* which source and destination both exist; the witness is a concurrent exists
\* that returned true for the destination while the source was still there.
C14_MoveIsNotAtomic ==
  \A i \in DOMAIN calls :
    (/\ calls[i].op = "moveFile"
     /\ calls[i].todo = <<>>
     /\ calls[i].err = OK
     /\ onlyObserved(calls, i))
    => calls[i].sawBoth

C14_Witness ==
  \E i \in DOMAIN calls : \E j \in DOMAIN calls :
    /\ calls[i].op = "moveFile"
    /\ Len(calls[i].todo) = 1
    /\ calls[j].op = "exists"
    /\ calls[j].todo = <<>>
    /\ overlap(calls, i, j)
    /\ i < j
    /\ calls[j].ret = TRUE
    /\ bothExist(tree, calls[i], cx)

\* a call run whole, with no other call in flight
wholeCall(t, c, cx_) ==
  CASE c.op = "writeFile" -> writeFile(t, c.args[1], c.args[2], suffixOf(c.args), cx_)
    [] c.op = "createDirectory" -> createDirectory(t, c.args[1], c.args[2], cx_)
    [] c.op = "deleteFile" -> deleteFile(t, c.args[1], cx_)

RECURSIVE oneAfterAnother(_, _, _)
\* the tree the calls cs leave when each is awaited before the next is made
oneAfterAnother(t, cs, cx_) ==
  IF cs = <<>> THEN t
  ELSE oneAfterAnother(wholeCall(t, Head(cs), cx_).t, Tail(cs), cx_)

\* the tree of a new file system
newTree == [q \in {<<>>} |-> VFSDirectory(options.defaultDirectoryMode, now)]

PlainCalls == {"writeFile", "createDirectory", "deleteFile"}

\* neither path lies at or under the other
disjointPaths(a, b) == ~isPrefix(a, b) /\ ~isPrefix(b, a)

\* the final tree is the one the calls leave one after another, and every file
\* written and not targeted again holds what was written
sameAsOneAfterAnother ==
  /\ structure(tree) = structure(oneAfterAnother(newTree, calls, cx))
  /\ \A i \in DOMAIN calls :
       (/\ calls[i].op = "writeFile"
        /\ calls[i].err = OK
        /\ \A j \in DOMAIN calls : j > i => disjointPaths(callPath(calls[j]), callPath(calls[i])))
       => /\ readFile(tree, calls[i].args[1], cx).err = OK
          /\ readFile(tree, calls[i].args[1], cx).ret = calls[i].args[2]

\* C15: when writeFile, createDirectory and deleteFile calls that were in flight
\* together target different paths, every interleaving of their steps ends in
\* the tree that running them one after another leaves, and every written file
\* holds the content written to it.
C15_DifferentPathsInterleave ==
  (/\ allReturned
   /\ \A i \in DOMAIN calls : calls[i].op \in PlainCalls
   /\ \A i \in DOMAIN calls : \A j \in DOMAIN calls :
        overlap(calls, i, j) => callPath(calls[i]) # callPath(calls[j]))
  => sameAsOneAfterAnother

\* C15, amended: the same for calls in flight together whose paths are
\* disjoint, none lying under another.
C15_DisjointPathsInterleave ==
  (/\ allReturned
   /\ \A i \in DOMAIN calls : calls[i].op \in PlainCalls
   /\ \A i \in DOMAIN calls : \A j \in DOMAIN calls :
        overlap(calls, i, j) => disjointPaths(callPath(calls[i]), callPath(calls[j])))
  => sameAsOneAfterAnother

C15_Witness ==
  /\ allReturned
  /\ \A i \in DOMAIN calls : calls[i].op \in PlainCalls
  /\ \A i \in DOMAIN calls : \A j \in DOMAIN calls :
       overlap(calls, i, j) => disjointPaths(callPath(calls[i]), callPath(calls[j]))
  /\ \E i \in DOMAIN calls : \E j \in DOMAIN calls :
       /\ overlap(calls, i, j)
       /\ calls[i].op = "writeFile" /\ calls[i].err = OK
       /\ calls[j].op = "writeFile" /\ calls[j].err = OK
       /\ Len(callPath(calls[i])) = 2
       /\ Len(callPath(calls[j])) = 2

directoriesIn(s) == {q \in DOMAIN s : s[q].kind = "directory"}

\* the files of structure s at or below path d
filesBelow(s, d) == {q \in filesOf(s) : isPrefix(d, q)}

\* the records of a returned diff that have the given type and name path q
recordsFor(call, type, q) ==
  {k \in 1..Len(call.ret) : call.ret[k].type = type /\ call.ret[k].path = pathString(q)}

\* no record of the diff from s to u names a directory of the side it reports
noDirectoryRecord(call, s, u) ==
  \A k \in 1..Len(call.ret) :
    /\ call.ret[k].type = "deleted"
         => \A q \in directoriesIn(s) : call.ret[k].path # pathString(q)
    /\ call.ret[k].type # "deleted"
         => \A q \in directoriesIn(u) : call.ret[k].path # pathString(q)

\* the files of a directory present only in u are all reported Added
recursesIntoAdded(call, s, u) ==
  \A d \in directoriesIn(u) \ DOMAIN s :
    \A f \in filesBelow(u, d) : recordsFor(call, "added", f) # {}

\* the files of a directory present only in s are all reported Deleted
recursesIntoDeleted(call, s, u) ==
  \A d \in directoriesIn(s) \ DOMAIN u :
    \A f \in filesBelow(s, d) : recordsFor(call, "deleted", f) # {}

\* the files lying directly in a directory present on both sides are compared
recursesIntoBoth(call, s, u) ==
  \A d \in directoriesIn(s) \cap directoriesIn(u) :
    /\ \A f \in childrenOf(u, d) \cap filesOf(u) :
         /\ f \notin DOMAIN s => recordsFor(call, "added", f) # {}
         /\ (f \in filesOf(s) /\ s[f].content # u[f].content)
              => recordsFor(call, "modified", f) # {}
    /\ \A f \in childrenOf(s, d) \cap filesOf(s) :
         f \notin DOMAIN u => recordsFor(call, "deleted", f) # {}

\* C17: diff(S) against the live tree holds no record for a directory itself, and
\* it reports the files of a directory present on both sides, every file below a
\* directory present only in the live tree as Added, and every file below a
\* directory present only in the snapshot as Deleted
C17_DiffRecursesIntoDirectories ==
  (last.op = "diff" /\ last.err = OK /\ last.args[1] # 0 /\ last.args[2] = 0)
    => /\ noDirectoryRecord(last, captured[last.args[1]], structure(tree))
       /\ recursesIntoBoth(last, captured[last.args[1]], structure(tree))
       /\ recursesIntoAdded(last, captured[last.args[1]], structure(tree))
       /\ recursesIntoDeleted(last, captured[last.args[1]], structure(tree))

\* the strings a glob call returned
globResults(call) == {call.ret[k] : k \in 1..Len(call.ret)}

\* the real path of the cwd of a glob call, in a tree without symlinks
cwdOf(o) == IF o.cwd # <<>> THEN splitPath(o.cwd) ELSE <<>>

\* the nodes of tree t below directory d
below(t, d) == {q \in DOMAIN t : q # d /\ isPrefix(d, q)}

\* the path of q relative to d: the absolute path without the prefix d and one separator
relativeString(q, d) == joinWith(SubSeq(q, Len(d) + 1, Len(q)), <<"/">>)

\* the children met on the way down from d to q, q included
onTheWay(q, d) == {SubSeq(q, 1, k) : k \in (Len(d) + 1)..Len(q)}

passesDot(q, d, o) ==
  o.dot \/ \A c \in onTheWay(q, d) : ~startsWith(c[Len(c)], <<".">>)

\* an ignore pattern matches the relative path or the bare name of child c
ignored(c, d, o) ==
  \E i \in 1..Len(o.ignore) :
    \/ regexTest(patternToRegex(o.ignore[i]), relativeString(c, d))
    \/ regexTest(patternToRegex(o.ignore[i]), c[Len(c)])

passesIgnore(q, d, o) == \A c \in onTheWay(q, d) : ~ignored(c, d, o)

passesType(t, q, o) ==
  \/ ~o.onlyFiles /\ ~o.onlyDirectories
  \/ o.onlyFiles /\ t[q].kind = "file"
  \/ o.onlyDirectories /\ t[q].kind = "directory"

passesDepth(q, d, o) == o.maxDepth = <<>> \/ Len(q) - Len(d) <= o.maxDepth[1] + 1

\* the nodes glob(pattern, o) owes on tree t
owedNodes(t, pattern, o) ==
  {q \in below(t, cwdOf(o)) :
     /\ regexTest(patternToRegex(pattern), relativeString(q, cwdOf(o)))
     /\ passesDot(q, cwdOf(o), o)
     /\ passesIgnore(q, cwdOf(o), o)
     /\ passesType(t, q, o)
     /\ passesDepth(q, cwdOf(o), o)}

\* the strings glob(pattern, o) owes on tree t
owedGlob(t, pattern, o) ==
  {IF o.absolute THEN pathString(q) ELSE relativeString(q, cwdOf(o)) :
     q \in owedNodes(t, pattern, o)}

\* C18: on a tree without symlinks a node below cwd is in glob's result exactly
\* when the compiled pattern matches its path relative to cwd and it passes the
\* dot, ignore, type and depth filters, for the default cwd and for a
\* subdirectory cwd; with absolute false the string returned is the relative path
C18_GlobIsExact ==
  (last.op = "glob" /\ last.err = OK /\ symlinksOf(tree) = {})
    => globResults(last) = owedGlob(tree, last.args[1], last.args[2])

\* a glob call that leaves everything to the ignore patterns: the pattern matches
\* every path and no other filter is set
onlyIgnores(call) ==
  /\ call.op = "glob"
  /\ call.err = OK
  /\ call.args[1] = <<"*", "*">>
  /\ call.args[2].ignore # <<>>
  /\ call.args[2].dot
  /\ call.args[2].absolute
  /\ ~call.args[2].onlyFiles
  /\ ~call.args[2].onlyDirectories
  /\ call.args[2].maxDepth = <<>>

\* C19: glob skips a child, and everything below it, exactly when an ignore
\* pattern matches the child's path relative to cwd or its bare name: when only
\* the ignore patterns filter, a node below cwd is returned exactly when no
\* child on the way down to it is matched
C19_IgnoreSkips ==
  (onlyIgnores(last) /\ symlinksOf(tree) = {})
    => \A q \in below(tree, cwdOf(last.args[2])) :
         (pathString(q) \in globResults(last))
           <=> passesIgnore(q, cwdOf(last.args[2]), last.args[2])

\* the number of segments of a returned string relative to cwd
segmentsBelow(s, o) ==
  IF o.absolute THEN Len(splitPath(s)) - Len(cwdOf(o)) ELSE Len(splitPath(s))

indexTs == <<"/", "a", "b", "/", "c", ".", "t">>
helperTs == <<"/", "a", "b", "/", "d", "e", "/", "f", ".", "t">>

\* the call glob('**/*.t', {maxDepth: 1}) on a tree holding the files '/ab/c.t'
\* and '/ab/de/f.t'
depthExample(call, t) ==
  /\ call.op = "glob"
  /\ call.args[1] = <<"*", "*", "/", "*", ".", "t">>
  /\ call.args[2] = [GlobDefaults EXCEPT !.maxDepth = <<1>>]
  /\ isFile(t, indexTs, cx).ret
  /\ isFile(t, helperTs, cx).ret

\* C20: glob with maxDepth = m returns only entries whose path relative to cwd
\* has at most m+1 segments; with '/ab/c.t' and '/ab/de/f.t',
\* glob('**/*.t', {maxDepth: 1}) returns '/ab/c.t' and not '/ab/de/f.t'
C20_MaxDepthBounds ==
  (last.op = "glob" /\ last.err = OK /\ last.args[2].maxDepth # <<>>)
    => /\ \A s \in globResults(last) :
            segmentsBelow(s, last.args[2]) <= last.args[2].maxDepth[1] + 1
       /\ depthExample(last, tree)
            => (indexTs \in globResults(last) /\ helperTs \notin globResults(last))

C20_Witness ==
  /\ depthExample(last, tree)
  /\ last.err = OK
  /\ indexTs \in globResults(last)
  /\ helperTs \notin globResults(last)

\* the strings of list s ascend: no string comes before the one listed before it
ascending(s) == \A k \in 1..(Len(s) - 1) : ~precedes(s[k + 1], s[k])

otherOrder(order) == IF order = "reverse" THEN "insertion" ELSE "reverse"

\* C21: glob returns its paths in ascending lexicographic order, the same list
\* whatever the order in which the directories hold their children, and a second
\* glob call with the same pattern and options on the tree it left returns the
\* same list
C21_GlobIsSortedAndRepeatable ==
  (last.op = "glob" /\ last.err = OK)
    => /\ ascending(last.ret)
       /\ glob(tree, last.args[1], last.args[2], otherOrder(last.args[3]), cx).ret
            = last.ret
       /\ glob(tree, last.args[1], last.args[2], last.args[3], cx).ret = last.ret

C21_Witness ==
  /\ last.op = "glob"
  /\ last.err = OK
  /\ last.args[3] = "reverse"
  /\ Len(last.ret) >= 3
  /\ Cardinality(childrenOf(tree, <<"ab">>)) >= 2

\* the symlinks of tree t that resolveNode does not resolve to a node: the
\* target is missing, or the resolution raises
unresolvable(t, cx_) ==
  {q \in symlinksOf(t) :
     \/ resolveNode(t, pathString(q), TRUE, 0, cx_).err # OK
     \/ ~resolveNode(t, pathString(q), TRUE, 0, cx_).found}

\* the symlinks of tree t whose target is missing
broken(t, cx_) ==
  {q \in symlinksOf(t) :
     /\ resolveNode(t, pathString(q), TRUE, 0, cx_).err = OK
     /\ ~resolveNode(t, pathString(q), TRUE, 0, cx_).found}

\* the tree without the nodes at the paths ps
treeWithout(t, ps) == [q \in DOMAIN t \ ps |-> t[q]]

\* C22: with symlink following enabled glob does not fail on a tree that holds
\* symlinks whose target cannot be resolved to a node, and it returns what it
\* returns on the tree without those symlinks
C22_UnresolvableSymlinksAreSkipped ==
  (last.op = "glob" /\ last.args[2].followSymlinks)
    => /\ last.err = OK
       /\ last.ret = glob(treeWithout(tree, unresolvable(tree, cx)),
                          last.args[1], last.args[2], last.args[3], cx).ret

\* the symlinks of tree t that resolve to a directory when followed
directoryLinks(t, cx_) ==
  {q \in symlinksOf(t) :
     /\ resolveNode(t, pathString(q), TRUE, 0, cx_).err = OK
     /\ resolveNode(t, pathString(q), TRUE, 0, cx_).found
     /\ t[resolveNode(t, pathString(q), TRUE, 0, cx_).path].kind = "directory"}

\* a symlink at the final segment is returned itself when followSymlinks is false
finalIsKept(t, q, cx_) ==
  /\ resolveNode(t, pathString(q), FALSE, 0, cx_).err = OK
  /\ resolveNode(t, pathString(q), FALSE, 0, cx_).found
  /\ resolveNode(t, pathString(q), FALSE, 0, cx_).path = q

\* a symlink to a directory at a non-final segment is followed: the path of a
\* child c of that directory through the link reaches c
nonFinalIsFollowed(t, q, c, cx_) ==
  /\ resolveNode(t, pathString(Append(q, c[Len(c)])), FALSE, 0, cx_).err = OK
  /\ resolveNode(t, pathString(Append(q, c[Len(c)])), FALSE, 0, cx_).found
  /\ resolveNode(t, pathString(Append(q, c[Len(c)])), FALSE, 0, cx_).path = c

\* C23: a symlink at a non-final segment is followed, a symlink at the final
\* segment is not followed unless followSymlinks is requested: readSymlink,
\* isSymlink and getLinkStats on a link succeed and return the link itself, also
\* when the link lies on a cycle or its target is missing
C23_FinalLinkIsNotFollowed ==
  /\ \A q \in symlinksOf(tree) :
       /\ finalIsKept(tree, q, cx)
       /\ readSymlink(tree, pathString(q), cx).err = OK
       /\ readSymlink(tree, pathString(q), cx).ret = tree[q].target
       /\ isSymlink(tree, pathString(q), cx).ret
       /\ getLinkStats(tree, pathString(q), cx).err = OK
       /\ getLinkStats(tree, pathString(q), cx).ret = "symlink"
  /\ \A q \in directoryLinks(tree, cx) :
       \A c \in childrenOf(tree, resolveNode(tree, pathString(q), TRUE, 0, cx).path) :
         nonFinalIsFollowed(tree, q, c, cx)
  /\ (last.op \in {"readSymlink", "getLinkStats"}
        /\ splitPath(last.args[1]) \in symlinksOf(tree))
       => last.err = OK
  /\ (last.op = "isSymlink" /\ splitPath(last.args[1]) \in symlinksOf(tree))
       => last.ret = TRUE

\* readSymlink has returned the target of a link that lies on a cycle
C23_Witness ==
  /\ last.op = "readSymlink"
  /\ last.err = OK
  /\ splitPath(last.args[1]) \in onCycle(tree)

\* the symlink at q starts a chain of k symlinks that ends at a file
isChain(t, q, k) ==
  /\ \A j \in 0..(k - 1) : hop(t, q, j) \in symlinksOf(t)
  /\ hop(t, q, k) \in filesOf(t)

\* C24: a chain of k symlinks that ends at a file resolves to that file when k is
\* at most maxSymlinkDepth and raises SymlinkLoop when k is greater
C24_ChainWithinDepthResolves ==
  \A q \in symlinksOf(tree) :
    \A k \in 1..Cardinality(symlinksOf(tree)) :
      isChain(tree, q, k)
        => IF k <= cx.options.maxSymlinkDepth
           THEN /\ resolveNode(tree, pathString(q), TRUE, 0, cx).err = OK
                /\ resolveNode(tree, pathString(q), TRUE, 0, cx).found
                /\ resolveNode(tree, pathString(q), TRUE, 0, cx).path = hop(tree, q, k)
           ELSE resolveNode(tree, pathString(q), TRUE, 0, cx).err = "SYMLINK_LOOP"

\* C25: normalizePath applied to what normalizePath returned returns the same string
C25_NormalizeIsIdempotent ==
  (last.op = "normalizePath") => normalizePath(last.ret) = last.ret

\* normalizePath has returned for an input with a backslash, a repeated separator
\* and a '..' segment, which it changed
C25_Witness ==
  /\ last.op = "normalizePath"
  /\ last.args[1] = <<"a", "\\", "/", ".", ".">>
  /\ last.ret # last.args[1]

\* the segments of a path string: what lies between its separators, the empty
\* stretches and the '.' segments left out
Separators == {"/", "\\"}

RECURSIVE segmentsFrom(_, _)
segmentsFrom(s, seg) ==
  IF s = <<>> THEN (IF seg \in {<<>>, DOT} THEN <<>> ELSE <<seg>>)
  ELSE IF Head(s) \in Separators
  THEN (IF seg \in {<<>>, DOT} THEN <<>> ELSE <<seg>>) \o segmentsFrom(Tail(s), <<>>)
  ELSE segmentsFrom(Tail(s), Append(seg, Head(s)))

segmentsOf(s) == segmentsFrom(s, <<>>)

\* how many of segs[i..j] are '..', and how many are names
ups(segs, i, j) == Cardinality({k \in i..j : segs[k] = DOTDOT})

names(segs, i, j) == Cardinality({k \in i..j : segs[k] # DOTDOT})

\* the name at segs[i] is not cancelled by a '..' after it
survives(segs, i) ==
  /\ segs[i] # DOTDOT
  /\ \A j \in (i + 1)..Len(segs) : ups(segs, i + 1, j) <= names(segs, i + 1, j)

\* the names of segs that no '..' cancels, in order
RECURSIVE keptFrom(_, _)
keptFrom(segs, i) ==
  IF i > Len(segs) THEN <<>>
  ELSE (IF survives(segs, i) THEN <<segs[i]>> ELSE <<>>) \o keptFrom(segs, i + 1)

kept(segs) == keptFrom(segs, 1)

\* the number of '..' of segs that no name before them cancels
climbs(segs) ==
  CHOOSE n \in 0..Len(segs) :
    /\ \E k \in 0..Len(segs) : n = ups(segs, 1, k) - names(segs, 1, k)
    /\ \A k \in 0..Len(segs) : n >= ups(segs, 1, k) - names(segs, 1, k)

\* the raw segments of a returned path: everything between its '/'
RECURSIVE rawFrom(_, _)
rawFrom(s, seg) ==
  IF s = <<>> THEN <<seg>>
  ELSE IF Head(s) = "/" THEN <<seg>> \o rawFrom(Tail(s), <<>>)
  ELSE rawFrom(Tail(s), Append(seg, Head(s)))

\* the shape of a normalized absolute path
cleanAbsolute(r) ==
  /\ r # <<>>
  /\ r[1] = "/"
  /\ \/ r = ROOT
     \/ /\ r[Len(r)] # "/"
        /\ \A k \in 1..Len(rawFrom(Tail(r), <<>>)) :
             rawFrom(Tail(r), <<>>)[k] \notin {<<>>, DOT, DOTDOT}

\* C26: for an absolute input normalizePath returns a path that starts with '/',
\* has no empty, '.' or '..' segment and no trailing separator, and holds the
\* names of the input that no '..' cancels, a '..' that climbs above the root being
\* dropped; for a relative input it returns the '..' that no name cancels, then
\* the names that no '..' cancels
C26_NormalizeShape ==
  (last.op = "normalizePath" /\ last.args[1] # <<>>)
    => IF last.args[1][1] \in Separators
       THEN /\ cleanAbsolute(last.ret)
            /\ last.ret = ROOT
                 \/ rawFrom(Tail(last.ret), <<>>) = kept(segmentsOf(last.args[1]))
            /\ last.ret = ROOT => kept(segmentsOf(last.args[1])) = <<>>
       ELSE IF climbs(segmentsOf(last.args[1])) = 0 /\ kept(segmentsOf(last.args[1])) = <<>>
       THEN last.ret = DOT
       ELSE rawFrom(last.ret, <<>>)
              = [k \in 1..climbs(segmentsOf(last.args[1])) |-> DOTDOT]
                  \o kept(segmentsOf(last.args[1]))

\* normalizePath has returned for '/../a', whose '..' climbs above the root
C26_Witness ==
  /\ last.op = "normalizePath"
  /\ last.args[1] = <<"/", ".", ".", "/", "a">>
  /\ last.ret = <<"/", "a">>

\* the handler calls that a step adds to the list of watcher i
newlyInvoked(i) ==
  SubSeq(watchers'[i].invoked, Len(watchers[i].invoked) + 1, Len(watchers'[i].invoked))

\* how many of the calls of the list s are calls of handler h with event e
callsOf(s, h, e) == Cardinality({k \in DOMAIN s : s[k].handler = h /\ s[k].event = e})

\* the handlers of watcher w for events of type name
handlersFor(w, name) == IF name \in DOMAIN w.handlers THEN w.handlers[name] ELSE <<>>

\* a step in which watcher i calls handlers does so when the debounce window has
\* elapsed since the last notification of every pending path, and it calls each
\* handler of a pending event once, with that event, unless a handler closes the
\* watcher meanwhile
flushesAfterWindow(i) ==
  (newlyInvoked(i) # <<>>)
    => /\ \A k \in DOMAIN watchers[i].pending :
            /\ watchers[i].pending[k].age >= watchers[i].options.debounce
            /\ ~watchers'[i].closed
                 => \A n \in DOMAIN handlersFor(watchers[i], watchers[i].pending[k].event.type) :
                      callsOf(newlyInvoked(i),
                              handlersFor(watchers[i], watchers[i].pending[k].event.type)[n],
                              watchers[i].pending[k].event) = 1
       /\ \A n \in DOMAIN newlyInvoked(i) :
            \E k \in DOMAIN watchers[i].pending :
              /\ newlyInvoked(i)[n].event = watchers[i].pending[k].event
              /\ callsOf(newlyInvoked(i), newlyInvoked(i)[n].handler,
                         newlyInvoked(i)[n].event) = 1

\* C27: changes to one path notified within the debounce window are delivered
\* together: no handler is called before the window has elapsed since the last of
\* them, then each handler is called once for the path, with the event notified
\* last; and what is pending is eventually flushed (or cancelled by close)
C27_DebouncedOnce ==
  /\ [][\A i \in DOMAIN watchers : i \in DOMAIN watchers' => flushesAfterWindow(i)]_vars
  /\ \A i \in 1..MaxWatchers :
       (i \in DOMAIN watchers /\ watchers[i].pending # <<>>)
         ~> (i \in DOMAIN watchers /\ watchers[i].pending = <<>>)

\* a handler has been called once with the change that followed, within the
\* window, the add of the same path
C27_Witness ==
  \E i \in DOMAIN watchers : \E n \in DOMAIN watchers[i].invoked :
    /\ watchers[i].invoked[n].merged >= 2
    /\ watchers[i].invoked[n].event.type = "change"
    /\ ~watchers[i].closed

\* the segments of path p below the watch path of w, <<-1>> when p is not at or
\* below it
RECURSIVE isPrefixOf(_, _)
isPrefixOf(a, b) ==
  \/ a = <<>>
  \/ b # <<>> /\ Head(a) = Head(b) /\ isPrefixOf(Tail(a), Tail(b))

\* the scope of watcher w covers path p: p is the watch path or below it, no
\* deeper than the depth option
covers(w, p) ==
  /\ isPrefixOf(splitPath(w.watchPath), splitPath(p))
  /\ w.options.depth = <<>>
       \/ Len(splitPath(p)) - Len(splitPath(w.watchPath)) <= w.options.depth[1]

\* the last call was a writeFile that created the file p
created(p) ==
  /\ last.op = "writeFile"
  /\ last.err = OK
  /\ last.args[1] = p
  /\ \E k \in DOMAIN last.events : last.events[k] = [type |-> "add", path |-> p]

\* watcher i has called a handler with an add event for p since the last
\* notification
addedSince(i, p) ==
  \E k \in DOMAIN watchers[i].invoked :
    /\ k > watchers[i].heard
    /\ watchers[i].invoked[k].event = [type |-> "add", path |-> p]

\* C28: when writeFile has created a file, every open watcher whose scope covers
\* the path and which has a handler for add eventually calls it with an add event
\* for that path, as long as it is not closed
C28_CreationDeliversAdd ==
  \A i \in 1..MaxWatchers : \A p \in WatchInputs.paths :
    (/\ i \in DOMAIN watchers
     /\ created(p)
     /\ ~watchers[i].closed
     /\ covers(watchers[i], p)
     /\ handlersFor(watchers[i], "add") # <<>>)
      ~> (i \in DOMAIN watchers /\ (watchers[i].closed \/ addedSince(i, p)))

\* C29: for a file that has existed since the watcher was created, the watcher
\* holds and delivers events of type change, never of type add
C29_OverwriteDeliversChange ==
  \A i \in DOMAIN watchers :
    /\ \A k \in DOMAIN watchers[i].pending :
         watchers[i].pending[k].key \in watchers[i].initial
           => watchers[i].pending[k].event.type = "change"
    /\ \A n \in DOMAIN watchers[i].invoked :
         watchers[i].invoked[n].event.path \in watchers[i].initial
           => watchers[i].invoked[n].event.type = "change"

\* C30: a closed watcher holds no pending event and no armed timer, and no
\* handler is called once the watcher is closed
C30_ClosedWatcherIsSilent ==
  \A i \in DOMAIN watchers :
    /\ watchers[i].closed => (watchers[i].pending = <<>> /\ watchers[i].timer = <<>>)
    /\ \A n \in DOMAIN watchers[i].invoked : ~watchers[i].invoked[n].late

\* the paths whose resolution the symlink-resolution family looks at: the paths
\* of its calls, paths that run through a symlink, and the root
ResolvedPaths ==
  ResolveInputs.paths
    \cup { <<"/">>, <<"/", "d">>, <<"/", "d", "/", "a", "/", "f">>,
           <<"/", "d", "/", "b", "/", "a", "/", "f">>, <<"/", "d", "/", "f", "/", "x">> }

\* the symlinks whose target, taken as resolveNode takes it, fails validation
invalidTargets(t) ==
  {q \in symlinksOf(t) :
     ~validatePath(targetPath(t[q].target, q, Len(q)))}

\* the symlinks whose target runs through another symlink before its last segment
throughLinks(t) ==
  {q \in symlinksOf(t) :
     \E k \in 1..(Len(pointsTo(t, q)) - 1) :
       SubSeq(pointsTo(t, q), 1, k) \in symlinksOf(t)}

\* resolveNode ended: it returned a node of the tree, returned null, or threw
\* one of the given errors
ended(r, errors) ==
  \/ r.err = OK /\ r.found /\ r.path \in DOMAIN r.t
  \/ r.err = OK /\ ~r.found
  \/ r.err \in errors

\* a call of resolveNode at depth maxSymlinkDepth + 1 throws at once: it reads no
\* node and calls resolveNode no further
stopsAtBound(t, p, follow, cx_) ==
  resolveNode(t, p, follow, cx_.options.maxSymlinkDepth + 1, cx_)
    = ThrowR(t, "SYMLINK_LOOP")

\* C32 as stated: on every tree and for every valid path, resolveNode returns a
\* node, returns not-found or raises SymlinkLoop, and a call at depth
\* maxSymlinkDepth + 1 goes no deeper
C32_ResolutionEndsInThreeWays ==
  \A p \in ResolvedPaths, follow \in BOOLEAN :
    /\ ended(resolveNode(tree, p, follow, 0, cx), {"SYMLINK_LOOP"})
    /\ stopsAtBound(tree, p, follow, cx)

\* C32: on every tree and for every valid path, resolveNode returns a node,
\* returns not-found, raises SymlinkLoop, or raises InvalidPath for a symlink
\* target that fails validation, and a call at depth maxSymlinkDepth + 1 goes
\* no deeper
C32_ResolutionEnds ==
  \A p \in ResolvedPaths, follow \in BOOLEAN :
    /\ ended(resolveNode(tree, p, follow, 0, cx), {"SYMLINK_LOOP", "INVALID_PATH"})
    /\ resolveNode(tree, p, follow, 0, cx).err = "INVALID_PATH"
         => invalidTargets(tree) # {}
    /\ stopsAtBound(tree, p, follow, cx)

\* a tree with two symlinks on a cycle and a symlink whose target runs through
\* one of them, where one resolution raised SymlinkLoop
C32_Witness ==
  /\ Cardinality(onCycle(tree)) >= 2
  /\ throughLinks(tree) # {}
  /\ \E p \in ResolvedPaths : resolveNode(tree, p, TRUE, 0, cx).err = "SYMLINK_LOOP"

\* the calls cs are writeFile calls to one path, at least two of them
racing(cs) ==
  /\ Len(cs) >= 2
  /\ \A i \in DOMAIN cs : cs[i].op = "writeFile" /\ cs[i].args[1] = cs[1].args[1]

\* the same, none of them with the tempSuffix option
racingPlain(cs) == racing(cs) /\ \A i \in DOMAIN cs : suffixOf(cs[i].args) = <<>>

\* call i is the one whose step this is, and the step is the one that writes
\* the file at the path of the call
applies(i) ==
  /\ i \in DOMAIN calls
  /\ calls[i].todo # <<>>
  /\ calls'[i] # calls[i]
  /\ Head(calls[i].todo).k = "writeFileResumed"
  /\ Head(calls[i].todo).path = calls[i].args[1]

\* the node at real path q of tree t is a file that holds exactly content c
holds(t, q, c) == q \in DOMAIN t /\ t[q].kind = "file" /\ t[q].content = c

\* what a step of racing writes must leave: no call has failed; the call that
\* writes its file leaves the whole of its content there, in the only entry of
\* the directory once every call has returned; any other step leaves the
\* content of the file alone
lastAppliedWins ==
  LET q == splitPath(calls'[1].args[1])
      parent == SubSeq(q, 1, Len(q) - 1)
  IN  /\ \A i \in DOMAIN calls' : calls'[i].err = OK
      /\ \A i \in DOMAIN calls' :
           applies(i) => holds(tree', q, calls'[i].args[2])
      /\ (\A i \in DOMAIN calls' : ~applies(i))
           => (q \in DOMAIN tree => holds(tree', q, tree[q].content))
      /\ returned(calls') = DOMAIN calls' => childrenOf(tree', parent) = {q}

upLinks(t, cx_) ==
  {q \in directoryLinks(t, cx_) :
     /\ resolveNode(t, pathString(q), TRUE, 0, cx_).path # q
     /\ isPrefix(resolveNode(t, pathString(q), TRUE, 0, cx_).path, q)}

\* C34: a glob call that follows symlinks and has no maxDepth returns a result
\* list on every tree, also on one in which a symlink points to the directory
\* it lies in or to an ancestor of it (every symlink of the tree resolving to a
\* node)
C34_GlobEndsWithResults ==
  (/\ last.op = "glob"
   /\ last.args[2].followSymlinks
   /\ last.args[2].maxDepth = <<>>
   /\ unresolvable(tree, cx) = {})
  => last.err = OK

\* the step is a writeFile call on a path whose final segment is a symlink of
\* the tree
writesOverLink ==
  /\ nops' = nops + 1
  /\ last'.op = "writeFile"
  /\ validatePath(last'.args[1])
  /\ splitPath(normalizePath(last'.args[1])) \in symlinksOf(tree)

\* the entry at real path q is in both trees the same symlink
keepsLink(t, u, q) ==
  /\ q \in symlinksOf(t)
  /\ q \in symlinksOf(u)
  /\ u[q].target = t[q].target

\* C35: writeFile on a path whose final segment is a symlink leaves the entry a
\* symlink with the target it had, and when it succeeds the file the symlink
\* resolves to holds the content written
C35_WriteKeepsSymlink ==
  [][writesOverLink
       => /\ keepsLink(tree, tree', splitPath(normalizePath(last'.args[1])))
          /\ last'.err = OK
               => /\ readFile(tree', last'.args[1], cx').err = OK
                  /\ readFile(tree', last'.args[1], cx').ret = last'.args[2]]_vars

\* the name of the node at real path q
nameOf(q) == q[Len(q)]

\* a name that has no separator in it and that validatePathSegment accepts
validName(name) ==
  /\ \A k \in 1..Len(name) : name[k] \notin {"/", "\\"}
  /\ validatePathSegment(name)

\* C36: every node name of the live tree is a valid path segment: no separator
\* in it, at most 255 characters, no reserved name, no space or period at its end
C36_NamesAreValidSegments ==
  \A q \in DOMAIN tree \ {<<>>} : validName(nameOf(q))

\* the step is a createSnapshot call that returned an id
givesId == nops' = nops + 1 /\ last'.op = "createSnapshot" /\ last'.err = OK

\* C38: createSnapshot never returns an id that an earlier createSnapshot call
\* on the same file system returned, also after deleteSnapshot or reset
C38_SnapshotIdsAreNeverReused == [][givesId => last'.ret \notin caller.ids]_vars


\* the caller wrote into one of its Buffers
mutates == last'.op = "mutate" /\ nops' = nops + 1

\* what readFile(p) gives: the bytes, or the error it throws
reads(t, p) ==
  LET r == readFile(t, p, cx) IN IF r.err = OK THEN r.ret ELSE r.err

\* C37: changing a Buffer after it was passed to writeFile, whether the call
\* created the file or overwrote it, or changing a Buffer that readFile
\* returned, never changes what a later readFile of the file returns
C37_ContentIsolatedFromBuffers ==
  [][mutates => \A p \in Inputs.paths : reads(tree', p) = reads(tree, p)]_vars


\* deleteFile was called with a path whose final segment is a symlink
deletesLink ==
  /\ nops' = nops + 1
  /\ last'.op = "deleteFile"
  /\ validatePath(last'.args[1])
  /\ splitPath(normalizePath(last'.args[1])) \in symlinksOf(tree)

\* tree t without the entry at real path q, every other entry as it was
withoutEntry(t, q) == [r \in DOMAIN t \ {q} |-> structure(t)[r]]

\* C39: deleteFile on a path whose final segment is a symlink removes only the
\* symlink entry from its parent directory: the node the link points to, its
\* content and every other entry of the tree are unchanged
C39_DeleteFileRemovesOnlyLink ==
  [][deletesLink =>
       /\ last'.err = OK
       /\ structure(tree') =
            withoutEntry(tree, splitPath(normalizePath(last'.args[1])))]_vars

\* a deleteFile that succeeded on "/d/a" while the file "/d/f" is there with
\* its content; "/d/a" was a symlink to it
C39_Witness ==
  /\ last.op = "deleteFile" /\ last.err = OK /\ last.changed
  /\ last.args[1] = <<"/", "d", "/", "a">>
  /\ << <<"d">>, <<"a">> >> \notin DOMAIN tree
  /\ << <<"d">>, <<"f">> >> \in filesOf(tree)
  /\ tree[<< <<"d">>, <<"f">> >>].content = <<1>>


\* the pending item of Debouncer w for key, <<>> when it has none
pendingFor(w, key) ==
  IF \E k \in DOMAIN w.pending : w.pending[k].key = key
  THEN <<w.pending[CHOOSE k \in DOMAIN w.pending : w.pending[k].key = key].event>>
  ELSE <<>>

\* the step is a call of method op
callsMethod(op) == nops' = nops + 1 /\ last'.op = op

\* the step passes items of Debouncer i to the callback
delivers(i) == newlyInvoked(i) # <<>>

\* a step of Debouncer i keeps the Map as the methods leave it: add puts its
\* item under its key, and an item goes only by being passed to the callback, by
\* cancel or by remove of its key; nothing else changes an item
keepsPending(i) ==
  /\ callsMethod("add") /\ last'.args[1] = i
       => pendingFor(watchers'[i], last'.args[2]) =
            <<[type |-> last'.args[3], path |-> last'.args[2]]>>
  /\ \A key \in Inputs.keys :
       \/ callsMethod("add") /\ last'.args = <<i, key, last'.args[3]>>
       \/ pendingFor(watchers'[i], key) = pendingFor(watchers[i], key)
       \/ /\ pendingFor(watchers'[i], key) = <<>>
          /\ \/ delivers(i)
             \/ callsMethod("cancel")
             \/ callsMethod("remove") /\ last'.args = <<i, key>>

\* a step in which the callback of Debouncer i is called passes every pending
\* item once, passes nothing else, and leaves the Map empty; when it is the
\* timer that runs, no add was made for the delay
deliversOnce(i) ==
  delivers(i)
    => /\ watchers'[i].pending = <<>>
       /\ Len(newlyInvoked(i)) = Len(watchers[i].pending)
       /\ \A k \in DOMAIN watchers[i].pending :
            /\ callsOf(newlyInvoked(i), "note", watchers[i].pending[k].event) = 1
            /\ nops' = nops => watchers[i].pending[k].age >= watchers[i].options.debounce

\* C40: whenever the debouncer holds pending items a flush timer is armed, so
\* once no add occurs for the delay every pending key is passed to the callback
\* exactly once, with the last item added for it, and the pending set becomes
\* empty, unless cancel or remove intervened; an item is never delivered twice
C40_PendingIsFlushedOnce ==
  /\ [](\A i \in DOMAIN watchers : watchers[i].pending # <<>> => watchers[i].timer # <<>>)
  /\ [][\A i \in DOMAIN watchers : keepsPending(i) /\ deliversOnce(i)]_vars
  /\ \A i \in DOMAIN Debouncers :
       (watchers[i].pending # <<>>) ~> (watchers[i].pending = <<>>)

\* the timer has passed to the callback, once, the item added last for a key
\* that was added twice
C40_Witness ==
  \E i \in DOMAIN watchers :
    /\ watchers[i].pending = <<>> /\ watchers[i].timer = <<>>
    /\ last.op = "add"
    /\ Len(watchers[i].invoked) = 1
    /\ watchers[i].invoked[1].merged = 2
    /\ watchers[i].invoked[1].event = [type |-> last.args[3], path |-> last.args[2]]


\* the trees there are: the live one and the root of every stored snapshot
trees == <<tree>> \o [k \in 1..Cardinality(DOMAIN snapshots) |->
                       snapshots[iteration(DOMAIN snapshots)[k]]]

\* the one root Directory object is there, at the root of the live tree
rootStays ==
  /\ <<>> \in DOMAIN tree
  /\ tree[<<>>].kind = "directory"
  /\ tree[<<>>].id = 1

\* every node of tree t but the root sits in a directory of t, under its own
\* name, and no object sits in t twice
childOfOne(t) ==
  /\ \A q \in DOMAIN t \ {<<>>} :
       /\ SubSeq(q, 1, Len(q) - 1) \in DOMAIN t
       /\ t[SubSeq(q, 1, Len(q) - 1)].kind = "directory"
       /\ t[q].name = q[Len(q)]
  /\ \A q, r \in DOMAIN t : t[q].id = t[r].id => q = r

\* no object is in two of the trees
noneShared ==
  \A a, b \in DOMAIN trees : a # b => idsOf(trees[a]) \cap idsOf(trees[b]) = {}

\* C31: there is exactly one root Directory and it is never removed; every
\* non-root node of the live tree is the child of exactly one directory, stored
\* under a key equal to its own name; and no node instance is shared between the
\* live tree and a stored snapshot or between two snapshots
C31_OneRootOneParentNothingShared ==
  rootStays /\ childOfOne(tree) /\ noneShared

\* two snapshots are stored that hold a file each, and the live tree has been
\* restored from one of them
C31_Witness ==
  /\ Cardinality(DOMAIN snapshots) = 2
  /\ \A i \in DOMAIN snapshots : filesOf(snapshots[i]) # {}
  /\ filesOf(tree) # {}
  /\ last.op = "restoreSnapshot" /\ last.err = OK

====
